---- MODULE Spec2Model ----
(***************************************************************************)
(* A model of the scheduled updater of raiprakashfca/stock-ranker          *)
(* (src/tmv_updater.py): one run of main() against the Google spreadsheet  *)
(* that holds the Watchlist, Baseline915 and LiveScores worksheets.        *)
(***************************************************************************)
EXTENDS Integers, Sequences, FiniteSets, TLC

\* ------------------------------------------------------------------------
\* Bounds of the model
\* ------------------------------------------------------------------------
\* Days of the model are 4 .. 4 + MaxDay; weekday = day % 7 with Monday = 0
\* as in datetime.weekday(), so the days are a Friday and the Saturday after
\* it (and the Sunday when MaxDay is raised).
MaxDay == 1

\* Runs of main() in one behaviour.
MaxRuns == 2

\* The scores (in hundredths) a successful calculate_scores call can return
\* for a symbol in this model.
ScoreValues == {350, 710}

\* ------------------------------------------------------------------------
\* Configuration of tmv_updater.py
\* ------------------------------------------------------------------------
WATCHLIST_WS == "Watchlist"
LIVESCORE_WS == "LiveScores"
BASELINE_WS == "Baseline915"

MARKET_OPEN_HHMM == <<9, 15>>
MARKET_CLOSE_HHMM == <<15, 35>>
BASELINE_START_HHMM == <<9, 15>>
BASELINE_END_HHMM == <<9, 30>>

\* retry_gsheets(fn, *, tries=6, ...)
Tries == 6

BASELINE_COLUMNS ==
    << "BaselineDate", "Symbol", "TMV Score", "Confidence", "Trend Direction",
       "Regime", "Reversal Probability", "SignalReason", "TrendScore",
       "MomentumScore", "VolumeScore", "VolatilityScore", "CandleTime",
       "CapturedAt" >>

preferred_order ==
    << "Symbol", "TMV Score", "TMV Delta", "Base TMV", "Confidence",
       "Trend Direction", "Regime", "SignalReason", "Reversal Probability",
       "TrendScore", "Trend Delta", "MomentumScore", "Momentum Delta",
       "VolumeScore", "Volume Delta", "VolatilityScore", "Volatility Delta",
       "CandleTime", "AsOf", "BaselineDate" >>

\* ------------------------------------------------------------------------
\* Wall clock.  A time is [day, ms]: a day number and the milliseconds since
\* midnight IST.  The clock is sampled at the instants below.
\* ------------------------------------------------------------------------
HMS(h, m, s) == ((h * 60 + m) * 60 + s) * 1000

Days == 4 .. (4 + MaxDay)

ClockSamples ==
    { HMS(9, 14, 59),          \* before the open
      HMS(9, 15, 0),           \* the open: first instant of both windows
      HMS(9, 30, 0) + 500,     \* in market hours, after the capture window
      HMS(15, 35, 0) + 500 }   \* after the close

Times == [day : Days, ms : ClockSamples]

\* t1 is not later than t2
TimeLeq(t1, t2) == t1.day < t2.day \/ (t1.day = t2.day /\ t1.ms <= t2.ms)

\* the values a clock read can return when the last read returned t
Later(t) == { u \in Times : TimeLeq(t, u) }

\* the values a clock read inside a run can return: a run that passed the
\* market-hours gate is over before midnight
LaterToday(t) == { u \in Later(t) : u.day = t.day }

FirstTime == CHOOSE t \in Times : \A u \in Times : TimeLeq(t, u)

weekday(t) == t.day % 7

\* now_ist().replace(microsecond=0).isoformat()
now_ist_iso(t) == [day |-> t.day, ms |-> (t.ms \div 1000) * 1000]

\* now_ist().strftime("%Y-%m-%d")
today_ist_str(t) == ToString(t.day)

_time_in_range(t, start_hm, end_hm) ==
    LET start == HMS(start_hm[1], start_hm[2], 0)
        end   == HMS(end_hm[1], end_hm[2], 0)
    IN  start <= t.ms /\ t.ms <= end

\* (mutant) the gate without its weekday test
is_market_hours_any_day(t) ==
    _time_in_range(t, MARKET_OPEN_HHMM, MARKET_CLOSE_HHMM)

is_market_hours(t) ==
    IF weekday(t) >= 5 THEN FALSE
    ELSE _time_in_range(t, MARKET_OPEN_HHMM, MARKET_CLOSE_HHMM)

is_baseline_window(t) ==
    IF weekday(t) >= 5 THEN FALSE
    ELSE _time_in_range(t, BASELINE_START_HHMM, BASELINE_END_HHMM)

\* ------------------------------------------------------------------------
\* Symbols.  A cell of the watchlist column is a sequence of characters.
\* ------------------------------------------------------------------------
upper_char(c) == CASE c = "a" -> "A" [] c = "b" -> "B" [] OTHER -> c

\* str.upper()
upper(s) == [k \in 1..Len(s) |-> upper_char(s[k])]

RECURSIVE lstrip(_)
lstrip(s) == IF s # <<>> /\ Head(s) = " " THEN lstrip(Tail(s)) ELSE s

RECURSIVE rstrip(_)
rstrip(s) ==
    IF s # <<>> /\ s[Len(s)] = " " THEN rstrip(SubSeq(s, 1, Len(s) - 1)) ELSE s

\* str.strip()
strip(s) == rstrip(lstrip(s))

\* str.replace("-", "_")
replace_dash(s) == [k \in 1..Len(s) |-> IF s[k] = "-" THEN "_" ELSE s[k]]

normalize_symbol(s) == replace_dash(upper(strip(s)))

\* (mutant) the list with its repetitions
dedupe_skipped(xs) == xs

\* list(dict.fromkeys(symbols)): the first occurrence of each element, in order
RECURSIVE dedupe(_)
dedupe(xs) ==
    IF xs = <<>> THEN <<>>
    ELSE LET init == dedupe(SubSeq(xs, 1, Len(xs) - 1))
             last == xs[Len(xs)]
         IN  IF \E k \in 1..Len(init) : init[k] = last
             THEN init ELSE Append(init, last)

\* load_watchlist: raw[1:] normalised, blanks dropped, duplicates dropped
RECURSIVE nonblank(_)
nonblank(xs) ==
    IF xs = <<>> THEN <<>>
    ELSE LET sym == normalize_symbol(Head(xs))
         IN  IF sym # <<>> THEN <<sym>> \o nonblank(Tail(xs))
             ELSE nonblank(Tail(xs))

load_watchlist(raw) ==
    dedupe(nonblank(IF raw = <<>> THEN <<>> ELSE Tail(raw)))

\* ------------------------------------------------------------------------
\* Worksheets.  A grid is the header row and the data rows of a worksheet;
\* every cell holds a string (or, for a time stamp, the time it renders).
\* ------------------------------------------------------------------------
EmptyGrid == [header |-> <<>>, rows |-> <<>>]

Max(a, b) == IF a >= b THEN a ELSE b

\* (mutant) _write without its ws.clear()
Clear_skipped(grid) == grid

\* ws.clear()
Clear(grid) == EmptyGrid

\* ws.update("A1", values): the cells of the range are overwritten, every
\* cell outside it keeps its value
Update(grid, values) ==
    [header |->
        IF Len(values.header) >= Len(grid.header) THEN values.header
        ELSE values.header \o
             SubSeq(grid.header, Len(values.header) + 1, Len(grid.header)),
     rows |->
        [k \in 1..Max(Len(values.rows), Len(grid.rows)) |->
            IF k <= Len(values.rows) THEN values.rows[k] ELSE grid.rows[k]]]

\* str(x) of a number, as df.astype(str) renders a score
Str(n) == ToString(n)

\* ------------------------------------------------------------------------
\* Floats.  Every score is a double: round(x, 2) in calculate_scores and
\* float(cell) in _num both give the double nearest to a two-decimal value
\* n/100, written here as the integer n.  The difference of two such doubles
\* is the double [hund |-> k, half_ulps |-> h]: the one h half-units in the
\* last place away from the double nearest to k/100.
\* ------------------------------------------------------------------------
\* floor(log2(n/100)) for 1 <= n <= 1599
binade(n) ==
    CHOOSE x \in -7..3 :
        IF x >= 0 THEN 100 * 2^x <= n /\ n < 200 * 2^x
        ELSE 100 <= n * 2^(-x) /\ n * 2^(-x) < 200

\* the double nearest to n/100 is mantissa / 2^scale(n), with a mantissa of
\* 53 bits
scale(n) == 52 - binade(n)

RECURSIVE pow2mod(_, _)
pow2mod(k, m) == IF k = 0 THEN 1 % m ELSE (2 * pow2mod(k - 1, m)) % m

\* n * 2^scale(n) = 100 * mantissa + residue(n), the residue nearest to zero
residue(n) ==
    LET m == ((n % 100) * pow2mod(scale(n), 100)) % 100
    IN  IF m < 50 THEN m ELSE m - 100

\* the mantissa of the double nearest to n/100 is odd
mant_odd(n) ==
    ((n % 200) * pow2mod(scale(n), 200) - residue(n)) % 200 = 100

\* d / u rounded to the nearest integer, a tie to the one whose mantissa is
\* even; odd0 says that mantissas at even distances are odd
round_half_even(d, u, odd0) ==
    LET fl  == d \div u
        rem == d % u
        lo_odd == IF fl % 2 = 0 THEN odd0 ELSE ~odd0
    IN  IF 2 * rem > u THEN fl + 1
        ELSE IF 2 * rem < u THEN fl
        ELSE IF lo_odd THEN fl + 1 ELSE fl

\* the distance, in half-units in the last place, of float(c/100) -
\* float(b/100) from the double nearest to (c - b)/100: the exact difference
\* of the two doubles rounded to 53 bits, for 0 <= b, c <= 1000
RECURSIVE half_ulps(_, _)
half_ulps(c, b) ==
    IF c = b \/ b = 0 \/ c = 0 THEN 0
    ELSE IF c < b THEN 0 - half_ulps(b, c)
    ELSE LET k == c - b
             big == Max(scale(b), scale(k))
             d == residue(b) * 2^(big - scale(b))
                  + residue(k) * 2^(big - scale(k))
                  - residue(c) * 2^(big - scale(c))
             u == 100 * 2^(big - scale(k))
             power_of_two == IF binade(k) >= 0 THEN k = 100 * 2^binade(k)
                             ELSE k * 2^(0 - binade(k)) = 100
         IN  IF d < 0 /\ power_of_two
             THEN round_half_even(2 * d, u, FALSE)
             ELSE 2 * round_half_even(d, u, mant_odd(k))

\* a - b of two floats
float_sub(a, b) == [hund |-> a - b, half_ulps |-> half_ulps(a, b)]

\* round(x, 2) of a double that close to a two-decimal value
round2(x) == [hund |-> x.hund, half_ulps |-> 0]

\* str(x) of a double, as df.astype(str) renders it: the shortest literal
\* that reads back as x, which is the two-decimal one only for the double
\* nearest to it
repr(x) ==
    IF x.half_ulps = 0 THEN Str(x.hund)
    ELSE Str(x.hund) \o "~" \o ToString(x.half_ulps)

\* _num(x) of a cell read back from a worksheet: <<n>> when float(x)
\* succeeds, <<>> (None) otherwise
_num(x) ==
    IF \E n \in ScoreValues : Str(n) = x
    THEN << CHOOSE n \in ScoreValues : Str(n) = x >>
    ELSE <<>>

InSeq(x, xs) == \E k \in 1..Len(xs) : xs[k] = x

\* read_baseline_map: Symbol -> today's baseline row (the last one wins)
read_baseline_map(grid, today) ==
    IF grid.rows = <<>> THEN <<>>
    ELSE IF ~InSeq("BaselineDate", grid.header) \/ ~InSeq("Symbol", grid.header)
    THEN <<>>
    ELSE LET key(r) == upper(strip(r.Symbol))
             idx == {k \in 1..Len(grid.rows) : grid.rows[k].BaselineDate = today}
             lastOf(sym) ==
                 CHOOSE k \in idx :
                     /\ key(grid.rows[k]) = sym
                     /\ \A j \in idx : key(grid.rows[j]) = sym => j <= k
         IN  IF idx = {} THEN <<>>
             ELSE [sym \in {key(grid.rows[k]) : k \in idx} |->
                      [grid.rows[lastOf(sym)] EXCEPT !.Symbol = sym]]

\* ------------------------------------------------------------------------
\* State
\* ------------------------------------------------------------------------
VARIABLES
    now,            \* the last value read from the wall clock
    sheets,         \* titles of the worksheets of the spreadsheet, in order
    watchcol,       \* column 1 of the watchlist worksheet
    live,           \* grid of the LiveScores worksheet
    base,           \* grid of the Baseline915 worksheet
    watchdog,       \* the watchdog marker: the time written to it, if any
    pc,             \* where main() is
    attempt,        \* retry_gsheets: the loop index i of the call in progress
    dt,             \* main: dt
    symbols,        \* main: symbols
    baseline_map,   \* main: baseline_map
    cap_t,          \* main: the clock read that gives td and captured_at
    baseline_rows,  \* main: baseline_rows
    live_t,         \* compute_livescores: the clock read that gives as_of, td
    rows,           \* compute_livescores: rows
    values,         \* write_livescores: values
    i,              \* index of the next symbol of the loop in progress
    live0,          \* LiveScores grid when the run started
    base0,          \* Baseline915 grid when the run started
    sheets0,        \* worksheets when the run started
    opened,         \* the run has opened the spreadsheet
    fetches,        \* compute_scores_for_symbol calls of the run
    publishCalls,   \* write_livescores calls of the run
    runs,           \* runs of main() started so far
    df,             \* the frame given to the scoring engine
    result,         \* what calculate_scores(df) returned, once called
    scored,         \* what compute_scores_for_symbol returned for df
    table,          \* the LiveScores table the dashboard loaded
    app_now,        \* the dashboard's clock, in minutes
    badge,          \* the freshness badge the dashboard shows
    pasted,         \* render_token_panel: the text of the paste box
    do_save,        \* render_token_panel: the Save button was clicked
    panel_pc,       \* where render_token_panel is
    access_token,   \* render_token_panel: access_token
    kite_log,       \* verify_access_token / write_access_token calls of the render
    token_sheet,    \* cells C1, D1, E1 of the token sheet
    token_sheet0,   \* the token sheet when the render started
    panel_ret,      \* what render_token_panel returned
    tries,          \* retry_gsheets: tries
    base_sleep,     \* retry_gsheets: base_sleep, in hundredths of a second
    retry_i,        \* retry_gsheets: the loop index i
    retry_pc,       \* where retry_gsheets is, or how it ended
    fn_calls,       \* retry_gsheets: what each invocation of fn did, in order
    sleeps,         \* retry_gsheets: the time.sleep calls, in order
    retry_ret       \* what retry_gsheets returned

vars == << now, sheets, watchcol, live, base, watchdog, pc, attempt, dt, symbols,
           baseline_map, cap_t, baseline_rows, live_t, rows, values, i,
           live0, base0, sheets0, opened, fetches, publishCalls, runs,
           df, result, scored, table, app_now, badge,
           pasted, do_save, panel_pc, access_token, kite_log, token_sheet,
           token_sheet0, panel_ret,
           tries, base_sleep, retry_i, retry_pc, fn_calls, sleeps, retry_ret >>

store == << sheets, watchcol, live, base, watchdog >>
locals == << symbols, baseline_map, cap_t, baseline_rows, live_t, rows, values, i >>
snapshot == << live0, base0, sheets0, runs >>
counters == << opened, fetches, publishCalls >>
engine == << df, result, scored >>
dashboard == << table, app_now, badge >>
updater == << now, store, pc, attempt, dt, locals, snapshot, counters >>
panel == << pasted, do_save, panel_pc, access_token, kite_log, token_sheet,
            token_sheet0, panel_ret >>
retrier == << tries, base_sleep, retry_i, retry_pc, fn_calls, sleeps,
              retry_ret >>

\* main() is not running
Final == {"idle", "skipped", "aborted", "published", "exhausted", "raised",
          "fetch_raised", "abandoned"}

\* What one call of the Sheets API does: it succeeds, raises an APIError that
\* retry_gsheets treats as transient (429, Quota exceeded, 500, 503), or
\* raises any other error.
Outcomes == {"ok", "transient", "fatal"}

\* What compute_scores_for_symbol does for one symbol: fetch_ohlc_data raises,
\* or the result is None (no candles, too few candles, missing columns), or it
\* is a score dict: the composite score and the four component scores.
FetchOutcomes ==
    {[kind |-> k, tmv |-> 0, trend |-> 0, momentum |-> 0, volume |-> 0,
      volatility |-> 0] : k \in {"raise", "none"}}
        \cup {[kind |-> "scores", tmv |-> p[1], trend |-> p[1],
                momentum |-> p[2], volume |-> p[2], volatility |-> p[1]] :
                    p \in {q \in ScoreValues \X ScoreValues : q[1] # q[2]}}

NoTime == [day |-> 0, ms |-> 0]

\* The tables the runs of the day before the first day (a Thursday) left: a
\* baseline captured at 09:15 and the table published at 09:30, both for the
\* two symbols of the watchlist.
ThursdayBaseline ==
    [header |-> BASELINE_COLUMNS,
     rows |-> << [BaselineDate |-> "3", Symbol |-> <<"A">>, TMVScore |-> "350",
                  TrendScore |-> "350", MomentumScore |-> "710",
                  VolumeScore |-> "710", VolatilityScore |-> "350",
                  CapturedAt |-> [day |-> 3, ms |-> HMS(9, 15, 0)]],
                 [BaselineDate |-> "3", Symbol |-> <<"B", "_", "A">>,
                  TMVScore |-> "710",
                  TrendScore |-> "710", MomentumScore |-> "350",
                  VolumeScore |-> "350", VolatilityScore |-> "710",
                  CapturedAt |-> [day |-> 3, ms |-> HMS(9, 15, 0)]] >>]

ThursdayLive ==
    [header |-> preferred_order,
     rows |-> << [Symbol |-> <<"A">>, TMVScore |-> "350",
                  TrendScore |-> "350", MomentumScore |-> "710",
                  VolumeScore |-> "710", VolatilityScore |-> "350",
                  AsOf |-> [day |-> 3, ms |-> HMS(9, 30, 0)],
                  BaselineDate |-> "3", BaseTMV |-> "350", TMVDelta |-> "0",
                  TrendDelta |-> "0", MomentumDelta |-> "0",
                  VolumeDelta |-> "0", VolatilityDelta |-> "0"],
                 [Symbol |-> <<"B", "_", "A">>, TMVScore |-> "710",
                  TrendScore |-> "710", MomentumScore |-> "350",
                  VolumeScore |-> "350", VolatilityScore |-> "710",
                  AsOf |-> [day |-> 3, ms |-> HMS(9, 30, 0)],
                  BaselineDate |-> "3", BaseTMV |-> "710", TMVDelta |-> "0",
                  TrendDelta |-> "0", MomentumDelta |-> "0",
                  VolumeDelta |-> "0", VolatilityDelta |-> "0"] >>]

\* The spreadsheets a behaviour starts from; no watchdog marker has been
\* written.  The watchlist column holds a
\* header and only a blank cell; or one symbol, in a worksheet of another
\* title, which load_watchlist finds as the first worksheet; or two symbols
\* with padding, a blank, a dash and a repeated symbol, in a new spreadsheet
\* and in one that was in use the day before.
TwoSymbols == << <<"a">>, <<" ", "a">>, <<" ">>, <<"b", "-", "a">>, <<"A">> >>

Spreadsheets ==
    { [sheets |-> <<WATCHLIST_WS>>, column |-> << <<"a">>, <<" ">> >>,
       live |-> EmptyGrid, base |-> EmptyGrid],
      [sheets |-> <<"Sheet1">>, column |-> << <<"a">>, <<"b">> >>,
       live |-> EmptyGrid, base |-> EmptyGrid],
      [sheets |-> <<WATCHLIST_WS>>, column |-> TwoSymbols,
       live |-> EmptyGrid, base |-> EmptyGrid],
      [sheets |-> <<WATCHLIST_WS, BASELINE_WS, LIVESCORE_WS>>,
       column |-> TwoSymbols,
       live |-> ThursdayLive, base |-> ThursdayBaseline] }

\* the updater before its first run, on spreadsheet w
UpdaterInit(w) ==
    /\ now = FirstTime
    /\ sheets = w.sheets
    /\ watchcol = w.column
    /\ live = w.live
    /\ base = w.base
    /\ watchdog = NoTime
    /\ pc = "idle"
    /\ attempt = 0
    /\ dt = NoTime
    /\ symbols = <<>>
    /\ baseline_map = <<>>
    /\ cap_t = NoTime
    /\ baseline_rows = <<>>
    /\ live_t = NoTime
    /\ rows = <<>>
    /\ values = EmptyGrid
    /\ i = 0
    /\ live0 = live
    /\ base0 = base
    /\ sheets0 = sheets
    /\ opened = FALSE
    /\ fetches = 0
    /\ publishCalls = 0
    /\ runs = 0

\* calculate_scores / compute_scores_for_symbol has not been called
NotCalled == [called |-> FALSE, value |-> <<>>]

\* what a call returned
Returned(v) == [called |-> TRUE, value |-> v]

\* no frame is being scored
EngineIdle ==
    /\ df = <<>>
    /\ result = NotCalled
    /\ scored = NotCalled

\* no badge is shown
NoBadge == [label |-> "none", color |-> "", age |-> 0]

\* the dashboard has loaded nothing and shows nothing
DashboardIdle ==
    /\ table = [has_asof |-> FALSE, rows |-> <<>>]
    /\ app_now = 0
    /\ badge = NoBadge

\* A text of the paste box: what pasted.strip() gives (text, its length and
\* whether it is alphanumeric), whether the paste has spaces around it, and
\* the request_token of its query string ("" when it has none).
NoText ==
    [text |-> "", padded |-> FALSE, request_token |-> "", length |-> 0,
     alnum |-> FALSE]

\* cells C1 (access token), D1 (expiry) and E1 (time of the write) of the
\* token sheet; D1 and E1 name the token whose write stamped them
EmptyTokenSheet == [C1 |-> "", D1 |-> "", E1 |-> ""]

\* render_token_panel has not run; the token sheet holds no token
PanelIdle ==
    /\ pasted = NoText
    /\ do_save = FALSE
    /\ panel_pc = "idle"
    /\ access_token = ""
    /\ kite_log = <<>>
    /\ token_sheet = EmptyTokenSheet
    /\ token_sheet0 = EmptyTokenSheet
    /\ panel_ret = NotCalled

\* retry_gsheets has not been called
RetryIdle ==
    /\ tries = Tries
    /\ base_sleep = 125
    /\ retry_i = 0
    /\ retry_pc = "idle"
    /\ fn_calls = <<>>
    /\ sleeps = <<>>
    /\ retry_ret = NotCalled

Init ==
    /\ \E w \in Spreadsheets : UpdaterInit(w)
    /\ EngineIdle
    /\ DashboardIdle
    /\ PanelIdle
    /\ RetryIdle

\* ------------------------------------------------------------------------
\* retry_gsheets
\* ------------------------------------------------------------------------
\* (mutant) a transient error is retried without a limit
retry_next_unbounded(o, again) ==
    IF o = "transient" THEN again ELSE "raised"

\* where the run is after fn() raised in iteration `attempt`: a transient
\* error sleeps and loops (to `again`) until the iterations are used up, any
\* other error is re-raised
retry_next(o, again) ==
    IF o = "transient"
    THEN IF attempt + 1 < Tries THEN again ELSE "exhausted"
    ELSE "raised"

\* the loop index after it: the iterations made when they are used up
retry_attempt(o) == IF o = "transient" THEN attempt + 1 ELSE 0

\* ------------------------------------------------------------------------
\* main
\* ------------------------------------------------------------------------
\* main, lines 332-335: read the clock and pass or fail the market-hours gate
Main_Start ==
    /\ pc \in Final
    /\ runs < MaxRuns
    /\ runs' = runs + 1
    /\ \E t \in Later(now) :
        /\ now' = t
        /\ dt' = t
        /\ pc' = IF ~is_market_hours(t) THEN "skipped" ELSE "open"
    /\ attempt' = 0
    /\ symbols' = <<>>
    /\ baseline_map' = <<>>
    /\ cap_t' = NoTime
    /\ baseline_rows' = <<>>
    /\ live_t' = NoTime
    /\ rows' = <<>>
    /\ values' = EmptyGrid
    /\ i' = 0
    /\ live0' = live
    /\ base0' = base
    /\ sheets0' = sheets
    /\ opened' = FALSE
    /\ fetches' = 0
    /\ publishCalls' = 0
    /\ UNCHANGED store
    /\ UNCHANGED << engine, dashboard, panel, retrier >>

\* (mutant) the loop stops after its first symbol
has_next_first_only(k, syms) == k <= 1

\* for sym in symbols: the loop has a k-th iteration
has_next(k, syms) == k <= Len(syms)

\* (mutant) the capture without the test of the window
should_capture_any_time(t, bmap) == DOMAIN bmap = {}

\* (mutant) the capture without the test for an existing baseline
should_capture_again(t, bmap) == is_baseline_window(t)

\* main, line 347: the baseline is captured now
should_capture(t, bmap) == is_baseline_window(t) /\ DOMAIN bmap = {}

\* main, lines 337-338: get_gspread_client() and the retried open_by_key
OpenByKey ==
    /\ pc = "open"
    /\ \E o \in Outcomes :
        IF o = "ok"
        THEN /\ opened' = TRUE
             /\ pc' = "wl_ws"
             /\ attempt' = 0
        ELSE /\ opened' = opened
             /\ pc' = retry_next(o, "open")
             /\ attempt' = retry_attempt(o)
    /\ UNCHANGED << now, dt, store, locals, snapshot, fetches, publishCalls >>
    /\ UNCHANGED << engine, dashboard, panel, retrier >>

\* load_watchlist, lines 105-109: sh.worksheet(WATCHLIST_WS), or the first
\* worksheet when there is none of that title; neither call is retried
WatchlistWorksheet ==
    /\ pc = "wl_ws"
    /\ \E o \in Outcomes :
        pc' = IF o = "ok" THEN "wl_col" ELSE "raised"
    /\ UNCHANGED << now, dt, attempt, store, locals, snapshot, counters >>
    /\ UNCHANGED << engine, dashboard, panel, retrier >>

\* load_watchlist, lines 111-120, and main, lines 341-343
WatchlistColValues ==
    /\ pc = "wl_col"
    /\ \E o \in Outcomes :
        IF o = "ok"
        THEN /\ symbols' = load_watchlist(watchcol)
             /\ pc' = IF symbols' = <<>> THEN "aborted" ELSE "bl_ws"
             /\ attempt' = 0
        ELSE /\ symbols' = symbols
             /\ pc' = retry_next(o, "wl_col")
             /\ attempt' = retry_attempt(o)
    /\ UNCHANGED << now, dt, store, baseline_map, cap_t, baseline_rows, live_t,
                    rows, values, i, snapshot, counters >>
    /\ UNCHANGED << engine, dashboard, panel, retrier >>

\* get_or_create_ws(sh, title): the worksheet is there, or it is added at the
\* end; an error of sh.worksheet or sh.add_worksheet propagates
get_or_create_ws(title, from, to) ==
    /\ pc = from
    /\ \E o \in Outcomes :
        IF o = "ok"
        THEN /\ sheets' = IF InSeq(title, sheets) THEN sheets
                          ELSE Append(sheets, title)
             /\ pc' = to
        ELSE /\ sheets' = sheets
             /\ pc' = "raised"
    /\ attempt' = 0
    /\ UNCHANGED << now, dt, watchcol, live, base, watchdog, locals, snapshot,
                    counters >>
    /\ UNCHANGED << engine, dashboard, panel, retrier >>

\* read_baseline_map, line 148, at main line 346 and at main line 377
ReadBaselineWorksheet ==
    \/ get_or_create_ws(BASELINE_WS, "bl_ws", "bl_read")
    \/ get_or_create_ws(BASELINE_WS, "bl_ws2", "bl_read2")

\* read_baseline_map, lines 149-170, and the test of main line 347.  td is
\* the day of the clock, which does not change inside a run.
ReadBaselineValues ==
    /\ pc \in {"bl_read", "bl_read2"}
    /\ \E o \in Outcomes :
        IF o = "ok"
        THEN    /\ now' = now
                /\ baseline_map' = read_baseline_map(base, today_ist_str(now))
                /\ pc' = IF pc = "bl_read" /\ should_capture(dt, baseline_map')
                         THEN "cap_start" ELSE "live_start"
                /\ attempt' = 0
        ELSE /\ now' = now
             /\ baseline_map' = baseline_map
             /\ pc' = retry_next(o, pc)
             /\ attempt' = retry_attempt(o)
    /\ UNCHANGED << dt, store, symbols, cap_t, baseline_rows, live_t, rows,
                    values, i, snapshot, counters >>
    /\ UNCHANGED << engine, dashboard, panel, retrier >>

\* main, lines 348-352: td, captured_at and the empty baseline_rows
CaptureStart ==
    /\ pc = "cap_start"
    /\ \E t \in LaterToday(now) :
        /\ now' = t
        /\ cap_t' = t
    /\ baseline_rows' = <<>>
    /\ i' = 1
    /\ pc' = "capture"
    /\ UNCHANGED << dt, attempt, store, symbols, baseline_map, live_t, rows,
                    values, snapshot, counters >>
    /\ UNCHANGED << engine, dashboard, panel, retrier >>

\* the row main appends to baseline_rows for a symbol, lines 357-372
baseline_row(sym, scores) ==
    [BaselineDate |-> today_ist_str(cap_t),
     Symbol       |-> sym,
     TMVScore     |-> scores.tmv,
     TrendScore      |-> scores.trend,
     MomentumScore   |-> scores.momentum,
     VolumeScore     |-> scores.volume,
     VolatilityScore |-> scores.volatility,
     CapturedAt   |-> now_ist_iso(cap_t)]

\* main, lines 353-379: one iteration of the capture loop; nothing catches
\* what compute_scores_for_symbol raises.  After the last symbol the
\* baseline is written unless no row was captured.
CaptureSymbol ==
    /\ pc = "capture"
    /\ has_next(i, symbols)
    /\ \E f \in FetchOutcomes :
        /\ fetches' = fetches + 1
        /\ IF f.kind = "raise"
           THEN /\ pc' = "fetch_raised"
                /\ UNCHANGED << baseline_rows, i >>
           ELSE /\ baseline_rows' =
                    IF f.kind = "none" THEN baseline_rows
                    ELSE Append(baseline_rows, baseline_row(symbols[i], f))
                /\ i' = i + 1
                /\ pc' = IF has_next(i', symbols) THEN "capture"
                         ELSE IF baseline_rows' = <<>> THEN "live_start"
                         ELSE "wb_ws"
    /\ UNCHANGED << now, dt, attempt, store, symbols, baseline_map, cap_t,
                    live_t, rows, values, snapshot, opened, publishCalls >>
    /\ UNCHANGED << engine, dashboard, panel, retrier >>

\* df.astype(str) of the baseline frame, line 182
baseline_astype_str(brows) ==
    [k \in 1..Len(brows) |->
        [brows[k] EXCEPT !.TMVScore = Str(@), !.TrendScore = Str(@),
                         !.MomentumScore = Str(@), !.VolumeScore = Str(@),
                         !.VolatilityScore = Str(@)]]

\* write_baseline, line 173
WriteBaselineWorksheet == get_or_create_ws(BASELINE_WS, "wb_ws", "wb_clear")

\* write_baseline, line 185: ws.clear() of _write, under retry_gsheets
WriteBaselineClear ==
    /\ pc = "wb_clear"
    /\ \E o \in Outcomes :
        IF o = "ok"
        THEN /\ base' = Clear(base)
             /\ pc' = "wb_update"
             /\ attempt' = attempt
        ELSE /\ base' = base
             /\ pc' = retry_next(o, "wb_clear")
             /\ attempt' = retry_attempt(o)
    /\ UNCHANGED << now, dt, sheets, watchcol, live, watchdog, locals,
                    snapshot, counters >>
    /\ UNCHANGED << engine, dashboard, panel, retrier >>

\* write_baseline, line 186: ws.update("A1", values) of _write
WriteBaselineUpdate ==
    /\ pc = "wb_update"
    /\ \E o \in Outcomes :
        IF o = "ok"
        THEN /\ base' = Update(base, [header |-> BASELINE_COLUMNS,
                                      rows |-> baseline_astype_str(baseline_rows)])
             /\ pc' = "bl_ws2"
             /\ attempt' = 0
        ELSE /\ base' = base
             /\ pc' = retry_next(o, "wb_clear")
             /\ attempt' = retry_attempt(o)
    /\ UNCHANGED << now, dt, sheets, watchcol, live, watchdog, locals,
                    snapshot, counters >>
    /\ UNCHANGED << engine, dashboard, panel, retrier >>

\* compute_livescores, lines 218-220
LiveStart ==
    /\ pc = "live_start"
    /\ \E t \in LaterToday(now) :
        /\ now' = t
        /\ live_t' = t
    /\ rows' = <<>>
    /\ i' = 1
    /\ pc' = "live"
    /\ UNCHANGED << dt, attempt, store, symbols, baseline_map, cap_t,
                    baseline_rows, values, snapshot, counters >>
    /\ UNCHANGED << engine, dashboard, panel, retrier >>

\* (mutant) a delta of zero where there is no baseline value
delta_or_zero(now_v, base_v) ==
    IF base_v # <<>> THEN repr(float_sub(now_v, base_v[1])) ELSE "0"

\* compute_livescores, lines 264-268: (now - base) if both are numbers, else
\* "", as df.astype(str) renders it; now is the score of a score dict, never
\* None
delta(now_v, base_v) ==
    IF base_v # <<>> THEN repr(float_sub(now_v, base_v[1])) ELSE ""

\* (mutant) a stamp of the day only
as_of_stamp_of_the_day(t) == [day |-> t.day, ms |-> 0]

\* compute_livescores, line 219: as_of = now_ist_iso(), read at time t
as_of_stamp(t) == now_ist_iso(t)

\* the row compute_livescores builds for a symbol, lines 229-269; Base TMV
\* and the deltas are shown as df.astype(str) renders them
live_row(sym, scores) ==
    LET has_base == sym \in DOMAIN baseline_map
        b        == baseline_map[sym]
        base_tmv == IF has_base THEN _num(b.TMVScore) ELSE <<>>
        base_tr  == IF has_base THEN _num(b.TrendScore) ELSE <<>>
        base_mo  == IF has_base THEN _num(b.MomentumScore) ELSE <<>>
        base_vo  == IF has_base THEN _num(b.VolumeScore) ELSE <<>>
        base_vl  == IF has_base THEN _num(b.VolatilityScore) ELSE <<>>
    IN  [Symbol       |-> sym,
         TMVScore     |-> scores.tmv,
         TrendScore      |-> scores.trend,
         MomentumScore   |-> scores.momentum,
         VolumeScore     |-> scores.volume,
         VolatilityScore |-> scores.volatility,
         AsOf         |-> as_of_stamp(live_t),
         BaselineDate |-> IF has_base THEN b.BaselineDate ELSE "",
         BaseTMV      |-> IF ~has_base THEN ""
                          ELSE IF base_tmv = <<>> THEN "None"
                          ELSE Str(base_tmv[1]),
         TMVDelta        |-> delta(scores.tmv, base_tmv),
         TrendDelta      |-> delta(scores.trend, base_tr),
         MomentumDelta   |-> delta(scores.momentum, base_mo),
         VolumeDelta     |-> delta(scores.volume, base_vo),
         VolatilityDelta |-> delta(scores.volatility, base_vl)]

\* df.astype(str) of the live frame, line 318
live_astype_str(lrows) ==
    [k \in 1..Len(lrows) |->
        [lrows[k] EXCEPT !.TMVScore = Str(@), !.TrendScore = Str(@),
                         !.MomentumScore = Str(@), !.VolumeScore = Str(@),
                         !.VolatilityScore = Str(@)]]

\* (mutant) main without its test for an empty frame
after_compute_publish_empty(df_live) == "pub_ws"

\* (mutant) main returns without publishing
after_compute_no_publish(df_live) == "aborted"

\* what main does with the frame compute_livescores returned, lines 383-387
after_compute(df_live) ==
    IF df_live = <<>> THEN "aborted" ELSE "pub_ws"

\* compute_livescores, lines 222-274: one iteration of the loop; an error of
\* the symbol is caught and the symbol left out.  After the last symbol,
\* main lines 382-387 and write_livescores lines 291-318.
LiveSymbol ==
    /\ pc = "live"
    /\ has_next(i, symbols)
    /\ \E f \in FetchOutcomes :
        /\ fetches' = fetches + 1
        /\ rows' = IF f.kind = "scores"
                   THEN Append(rows, live_row(symbols[i], f))
                   ELSE rows
    /\ i' = i + 1
    /\ pc' = IF has_next(i', symbols) THEN "live" ELSE after_compute(rows')
    /\ IF pc' = "pub_ws"
       THEN /\ publishCalls' = publishCalls + 1
            /\ values' = [header |-> preferred_order,
                          rows |-> live_astype_str(rows')]
       ELSE UNCHANGED << publishCalls, values >>
    /\ UNCHANGED << now, dt, attempt, store, symbols, baseline_map, cap_t,
                    baseline_rows, live_t, snapshot, opened >>
    /\ UNCHANGED << engine, dashboard, panel, retrier >>

\* write_livescores, line 289
WriteLiveWorksheet == get_or_create_ws(LIVESCORE_WS, "pub_ws", "pub_clear")

\* write_livescores, line 321: ws.clear() of _write, under retry_gsheets
WriteLiveClear ==
    /\ pc = "pub_clear"
    /\ \E o \in Outcomes :
        IF o = "ok"
        THEN /\ live' = Clear(live)
             /\ pc' = "pub_update"
             /\ attempt' = attempt
        ELSE /\ live' = live
             /\ pc' = retry_next(o, "pub_clear")
             /\ attempt' = retry_attempt(o)
    /\ UNCHANGED << now, dt, sheets, watchcol, base, watchdog, locals,
                    snapshot, counters >>
    /\ UNCHANGED << engine, dashboard, panel, retrier >>

\* write_livescores, line 322: ws.update("A1", values) of _write
WriteLiveUpdate ==
    /\ pc = "pub_update"
    /\ \E o \in Outcomes :
        IF o = "ok"
        THEN /\ live' = Update(live, values)
             /\ pc' = "published"
             /\ attempt' = 0
        ELSE /\ live' = live
             /\ pc' = retry_next(o, "pub_clear")
             /\ attempt' = retry_attempt(o)
    /\ UNCHANGED << now, dt, sheets, watchcol, base, watchdog, locals,
                    snapshot, counters >>
    /\ UNCHANGED << engine, dashboard, panel, retrier >>

\* The process is stopped between two symbols' computations, in either loop.
Abandon ==
    /\ pc \in {"capture", "live"}
    /\ 1 < i /\ i <= Len(symbols)
    /\ pc' = "abandoned"
    /\ UNCHANGED << now, dt, attempt, store, locals, snapshot, counters >>
    /\ UNCHANGED << engine, dashboard, panel, retrier >>

Next ==
    \/ Main_Start
    \/ OpenByKey
    \/ WatchlistWorksheet
    \/ WatchlistColValues
    \/ ReadBaselineWorksheet
    \/ ReadBaselineValues
    \/ CaptureStart
    \/ CaptureSymbol
    \/ WriteBaselineWorksheet
    \/ WriteBaselineClear
    \/ WriteBaselineUpdate
    \/ LiveStart
    \/ LiveSymbol
    \/ WriteLiveWorksheet
    \/ WriteLiveClear
    \/ WriteLiveUpdate
    \/ Abandon

Spec == Init /\ [][Next]_vars

\* ------------------------------------------------------------------------
\* Properties
\* ------------------------------------------------------------------------
\* the run is in write_livescores or has left it
InPublish == publishCalls > 0

\* C1: if write_livescores exhausts its retries, the published LiveScores
\* table is what it was before the run started.
C1_ExhaustedLeavesTableIntact ==
    (pc = "exhausted" /\ InPublish) => live = live0

\* C2: at every moment of a publish a reader of LiveScores sees the complete
\* previous table or the complete new table.
C2_ReaderSeesOldOrNew ==
    InPublish => (live = live0 \/ live = values)

\* C3: after a successful publish the LiveScores table is exactly the header
\* and the rows assembled in that run; no row of an earlier table survives.
C3_PublishReplaces ==
    pc = "published" =>
        /\ live.header = preferred_order
        /\ live.rows = live_astype_str(rows)

\* a successful publish of a table shorter than the one it replaces
C3_Witness ==
    /\ pc = "published"
    /\ Len(live0.rows) > Len(rows)
    /\ Len(rows) > 0

\* the times the gate of main must refuse: Saturday, Sunday, before 09:15,
\* after 15:35
OutsideTradingHours(t) ==
    \/ weekday(t) \in {5, 6}
    \/ t.ms < HMS(9, 15, 0)
    \/ t.ms > HMS(15, 35, 0)

\* C4: a run started outside trading days/hours is skipped: it opens no
\* store, fetches no candles, writes no baseline and never calls the
\* publisher.
C4_OutsideHoursSkipped ==
    (runs > 0 /\ OutsideTradingHours(dt)) =>
        /\ pc = "skipped"
        /\ ~opened
        /\ fetches = 0
        /\ publishCalls = 0
        /\ base = base0 /\ live = live0 /\ sheets = sheets0

\* a run skipped on a Saturday after an earlier run published a table
C4_Witness ==
    /\ pc = "skipped"
    /\ weekday(dt) = 5
    /\ _time_in_range(dt, MARKET_OPEN_HHMM, MARKET_CLOSE_HHMM)
    /\ live.rows # <<>>

\* C5: a fetch failure of one symbol never aborts a run, the runs in the
\* capture window with no baseline included.
C5_FetchFailureNeverAborts == pc # "fetch_raised"

\* C6: a run with zero valid score rows never calls the publisher, and a run
\* that has not called the publisher leaves the published table as it was.
C6_EmptyNeverPublished ==
    /\ InPublish => rows # <<>>
    /\ pc = "aborted" => ~InPublish
    /\ ~InPublish => live = live0

\* every symbol of a non-empty watchlist failed while a table was published
C6_Witness ==
    /\ pc = "aborted"
    /\ symbols # <<>>
    /\ fetches >= Len(symbols)
    /\ live0.rows # <<>>

\* C7: a run that assembled at least one valid row calls write_livescores
\* exactly once, with the complete table; no run calls it more than once.
C7_PublishExactlyOnce ==
    /\ publishCalls <= 1
    /\ (rows # <<>> /\ pc \notin {"live", "abandoned"}) =>
            /\ publishCalls = 1
            /\ values = [header |-> preferred_order,
                         rows |-> live_astype_str(rows)]

\* a run that published both symbols of the watchlist
C7_Witness ==
    /\ pc = "published"
    /\ publishCalls = 1
    /\ Len(rows) = 2

\* C8: the first write to the published table comes after the computation of
\* every watchlist symbol, and nothing is fetched once the publish started.
C8_PublishAfterAllSymbols ==
    [][ /\ (live' # live => (InPublish /\ i = Len(symbols) + 1))
        /\ (InPublish' => i' = Len(symbols) + 1)
        /\ ((InPublish /\ InPublish') => fetches' = fetches) ]_vars

\* the publish of a two-symbol run is writing, one symbol having been left out
C8_Witness ==
    /\ pc = "pub_update"
    /\ Len(symbols) = 2
    /\ Len(rows) = 1
    /\ fetches >= 2

\* C9: a run abandoned between two symbols has changed no shared store.
C9_AbandonedNoSideEffect ==
    pc = "abandoned" => (live = live0 /\ base = base0 /\ sheets = sheets0)

\* C9, amended: a run abandoned between two symbols has not touched
\* LiveScores; the only worksheet it can have created is Baseline915, and it
\* has rewritten the baseline table only if it started in the capture window
\* with no baseline for the day and was abandoned in the live-score loop.
C9_AbandonedLiveUntouched ==
    pc = "abandoned" =>
        /\ live = live0
        /\ ~InPublish
        /\ sheets \in {sheets0, Append(sheets0, BASELINE_WS)}
        /\ base # base0 =>
              /\ is_baseline_window(dt)
              /\ DOMAIN read_baseline_map(base0, today_ist_str(dt)) = {}
              /\ live_t # NoTime

\* a run abandoned in the live-score loop after it wrote the baseline
C9_Witness ==
    /\ pc = "abandoned"
    /\ base # base0
    /\ live0.rows # <<>>

\* no two rows of the baseline table have the same (BaselineDate, Symbol)
OneRecordPerDateSymbol ==
    \A j, k \in 1..Len(base.rows) :
        (/\ base.rows[j].BaselineDate = base.rows[k].BaselineDate
         /\ base.rows[j].Symbol = base.rows[k].Symbol) => j = k

\* C10: the baseline table holds one record per (date, symbol), and a run
\* that finds a record for today leaves the baseline table as it is.
C10_CaptureIdempotent ==
    /\ OneRecordPerDateSymbol
    /\ (runs > 0 /\ DOMAIN read_baseline_map(base0, today_ist_str(dt)) # {})
            => base = base0

\* a second run in the capture window, the baseline of the day being there
C10_Witness ==
    /\ runs = 2
    /\ is_baseline_window(dt)
    /\ pc = "published"
    /\ Len(base.rows) = 2
    /\ base = base0

\* C11: every record of the baseline table carries a CapturedAt inside the
\* capture window (09:15-09:30 IST on a weekday), and the baseline table is
\* written while the clock is inside that window.
C11_CapturedInsideWindow ==
    /\ \A k \in 1..Len(base.rows) : is_baseline_window(base.rows[k].CapturedAt)
    /\ pc \in {"wb_ws", "wb_clear", "wb_update"} => is_baseline_window(now)

\* the baseline records of the day of the clock, as read_baseline_map reads
\* them
TodaysBaseline == read_baseline_map(base, today_ist_str(now))

\* C12: a baseline record that exists for (today, symbol) is immutable for
\* the rest of the day: a step of a run of that day changes the baseline
\* table only if the table holds no record for today, so that no record of
\* the day is ever removed or read with other values.
C12_BaselineImmutable ==
    [][ (base' # base /\ now'.day = now.day) =>
            DOMAIN TodaysBaseline = {} ]_vars

\* a second run of the day, skipped after the close, with the baseline the
\* first run captured still in the table
C12_Witness ==
    /\ runs = 2
    /\ pc = "skipped"
    /\ weekday(dt) < 5
    /\ DOMAIN read_baseline_map(base, today_ist_str(dt)) # {}

\* the five delta cells of a row of the live table
DeltaCells(r) ==
    { r.TMVDelta, r.TrendDelta, r.MomentumDelta, r.VolumeDelta,
      r.VolatilityDelta }

\* C13: in every row of the table a run publishes, if the baseline table
\* holds no record for (today, symbol) the five delta cells, Base TMV and
\* BaselineDate are empty, never zero; if it holds one with parseable
\* component scores, every delta cell is filled.
C13_DeltasAbsentWithoutBaseline ==
    InPublish =>
        \A k \in 1..Len(values.rows) :
            LET r == values.rows[k]
                today == read_baseline_map(base, today_ist_str(live_t))
                parseable(b) ==
                    \A c \in { b.TMVScore, b.TrendScore, b.MomentumScore,
                               b.VolumeScore, b.VolatilityScore } :
                        _num(c) # <<>>
            IN  /\ r.Symbol \notin DOMAIN today =>
                    /\ DeltaCells(r) = {""}
                    /\ r.BaseTMV = ""
                    /\ r.BaselineDate = ""
                /\ (r.Symbol \in DOMAIN today /\ parseable(today[r.Symbol])) =>
                    "" \notin DeltaCells(r)

\* a published table with a row that has a baseline and a row that has none
C13_Witness ==
    /\ pc = "published"
    /\ Len(live.rows) = 2
    /\ live.rows[1].TMVDelta # ""
    /\ live.rows[2].TMVDelta = ""
    /\ live.rows[2].BaseTMV = ""

\* C14: in every row of the table a run publishes whose symbol has a
\* baseline for today, each delta cell is the difference of the current and
\* the baseline score rounded to two decimals.
C14_DeltaIsRoundedDifference ==
    InPublish =>
        \A k \in 1..Len(values.rows) :
            LET r == values.rows[k]
                b == baseline_map[r.Symbol]
                rounded(c, x) == repr(round2(float_sub(_num(c)[1], _num(x)[1])))
            IN  r.Symbol \in DOMAIN baseline_map =>
                    /\ r.TMVDelta = rounded(r.TMVScore, b.TMVScore)
                    /\ r.TrendDelta = rounded(r.TrendScore, b.TrendScore)
                    /\ r.MomentumDelta = rounded(r.MomentumScore, b.MomentumScore)
                    /\ r.VolumeDelta = rounded(r.VolumeScore, b.VolumeScore)
                    /\ r.VolatilityDelta =
                           rounded(r.VolatilityScore, b.VolatilityScore)

\* C15: after a successful publish the watchdog marker holds the timestamp of
\* that run.  (No statement of main or of write_livescores writes the marker:
\* no action changes watchdog.)
C15_WatchdogAfterPublish ==
    pc = "published" => watchdog = now_ist_iso(live_t)

\* ------------------------------------------------------------------------
\* The scoring engine: calculate_scores of src/utils/indicators.py and its
\* caller compute_scores_for_symbol.
\*
\* A frame is abstracted to its columns, the name of its index, its number
\* of rows, the number of rows that to_datetime/to_numeric/dropna remove, and
\* the readings of the indicators on its last candle.  A reading that
\* _safe_last or _slope_last can return as None is <<>> or <<v>>.  Units:
\* ADX, +DI, -DI, RSI, MFI and their changes in whole points; prices in whole
\* rupees; MACD histogram, EMA slope, volume ratio and band-width percentile
\* in hundredths; band-width change in thousandths; OBV slope in millions.
\* Scores are in units of 0.00001 until they are rounded to hundredths.
\* ------------------------------------------------------------------------
\* the rows calculate_scores asks for: len(d) < 60
MinCandles == 60

\* the longest frame of the model
MaxCandles == 61

\* 1.0 in the unit of the scores
One == 100 * 1000

required == {"date", "open", "high", "low", "close", "volume"}

\* (mutant) no clamp
_clip_identity(x, lo, hi) == x

\* _clip(x, lo, hi) = max(lo, min(hi, x))
_clip(x, lo, hi) ==
    LET m == IF hi <= x THEN hi ELSE x
    IN  IF lo >= m THEN lo ELSE m

abs(x) == IF x < 0 THEN 0 - x ELSE x

\* `v or d` of an optional reading: d when v is None or 0.0
or_default(v, d) == IF v = <<>> THEN d ELSE IF v[1] = 0 THEN d ELSE v[1]

\* round(x, 2) of a score in units of 0.00001, in hundredths; a tie goes to
\* the even neighbour
round_to_hundredths(x) ==
    LET fl  == x \div 1000
        rem == x % 1000
    IN  IF rem > 500 THEN fl + 1
        ELSE IF rem < 500 THEN fl
        ELSE IF fl % 2 = 0 THEN fl ELSE fl + 1

\* lines 195-203 and 232-235, 250-253, 265-267, 324-326: the locals of
\* calculate_scores that the scores are computed from
readings_of(ind) ==
    LET last_close == ind.close
        last_ema8  == or_default(ind.ema8, last_close)
        last_ema21 == or_default(ind.ema21, last_close)
        last_ema50 == or_default(ind.ema50, last_close)
    IN  [ema_stack_up |-> /\ last_close > last_ema21 /\ last_ema21 > last_ema50
                          /\ last_ema8 > last_ema21,
         ema_stack_dn |-> /\ last_close < last_ema21 /\ last_ema21 < last_ema50
                          /\ last_ema8 < last_ema21,
         ema21_slope |-> or_default(ind.ema21_slope, 0),
         adx_val  |-> or_default(ind.adx, 0),
         pdi_val  |-> or_default(ind.pdi, 0),
         mdi_val  |-> or_default(ind.mdi, 0),
         rsi_val  |-> or_default(ind.rsi, 50),
         rsi_d    |-> ind.rsi_d,
         hist_val |-> or_default(ind.hist, 0),
         hist_d   |-> ind.hist_d,
         vol_ratio |-> ind.vol_ratio,
         obv_slope |-> or_default(ind.obv_slope, 0),
         mfi_val  |-> or_default(ind.mfi, 50),
         mfi_d    |-> ind.mfi_d,
         bb_w_rank |-> ind.bb_w_rank,
         bb_w_d   |-> ind.bb_w_d,
         near_upper |-> IF ind.bb_up = <<>> THEN FALSE
                        ELSE last_close >= ind.bb_up[1],
         near_lower |-> IF ind.bb_low = <<>> THEN FALSE
                        ELSE last_close <= ind.bb_low[1],
         adx_d    |-> ind.adx_d]

\* lines 205-210
trend_dir(r) ==
    IF r.ema_stack_up /\ r.pdi_val >= r.mdi_val THEN "Up"
    ELSE IF r.ema_stack_dn /\ r.mdi_val > r.pdi_val THEN "Down"
    ELSE "Neutral"

\* lines 213-225
trend_score(r) ==
    LET trend_strength ==
            (IF r.ema_stack_up \/ r.ema_stack_dn THEN 250000 ELSE 50000)
            + (IF r.pdi_val - r.mdi_val > 5 THEN 2 * One ELSE 0)
            + (IF r.mdi_val - r.pdi_val > 5 THEN 2 * One ELSE 0)
            + _clip((r.adx_val - 15) * 20000, 0, 3 * One)
            + _clip(abs(r.ema21_slope) * 50000, 0, 2 * One)
    IN  _clip(trend_strength, 0, 10 * One)

\* lines 236-244
momentum_score(r) ==
    LET rsi_component   == _clip((r.rsi_val - 50) * 8000, 0 - 4 * One, 4 * One)
        accel_component == _clip(r.rsi_d * 60000, 0 - 2 * One, 2 * One)
        macd_component  == _clip(r.hist_val * 8000, 0 - 250000, 250000)
        macd_accel      == _clip(r.hist_d * 12000, 0 - 150000, 150000)
        momentum_raw    == 5 * One + rsi_component + accel_component
                           + macd_component + macd_accel
    IN  _clip(momentum_raw, 0, 10 * One)

\* lines 255-260
volume_score(r) ==
    LET volume_raw ==
            4 * One
            + _clip((r.vol_ratio - 100) * 3000, 0 - One, 3 * One)
            + _clip(r.obv_slope * One, 0 - 2 * One, 2 * One)
            + _clip((r.mfi_val - 50) * 4000, 0 - 2 * One, 2 * One)
            + _clip(r.mfi_d * 40000, 0 - One, One)
    IN  _clip(volume_raw, 0, 10 * One)

\* lines 270-274
volat_score(r) ==
    LET volat_raw ==
            5 * One
            + _clip((r.bb_w_rank - 50) * 6000, 0 - 3 * One, 3 * One)
            + _clip(r.bb_w_d * 4000, 0 - 2 * One, 2 * One)
    IN  _clip(volat_raw, 0, 10 * One)

\* (mutant) the regime decided by the ADX alone
regime_adx_only(adx_val, bb_w_rank) ==
    IF adx_val >= 22 THEN "Trend"
    ELSE IF adx_val <= 18 THEN "Range"
    ELSE "Transition"

\* (mutant) the regime with strict comparisons
regime_strict(adx_val, bb_w_rank) ==
    IF adx_val > 22 /\ bb_w_rank > 45 THEN "Trend"
    ELSE IF adx_val < 18 /\ bb_w_rank < 45 THEN "Range"
    ELSE "Transition"

\* lines 277-282
regime(adx_val, bb_w_rank) ==
    IF adx_val >= 22 /\ bb_w_rank >= 45 THEN "Trend"
    ELSE IF adx_val <= 18 /\ bb_w_rank <= 45 THEN "Range"
    ELSE "Transition"

\* line 297
mom_bias(r) ==
    IF r.rsi_val >= 52 /\ r.hist_val >= 0 THEN "Up"
    ELSE IF r.rsi_val <= 48 /\ r.hist_val <= 0 THEN "Down"
    ELSE "Neutral"

\* line 298
agree(r) == trend_dir(r) # "Neutral" /\ mom_bias(r) = trend_dir(r)

\* line 299
conflict(r) ==
    /\ trend_dir(r) # "Neutral"
    /\ mom_bias(r) # "Neutral"
    /\ mom_bias(r) # trend_dir(r)

\* (mutant) the weighted sum is clamped before the adjustment, not after
tmv_clamped_first(trend_s, momentum_s, volume_s, volat_s, ag, cf) ==
    LET weighted == (35 * trend_s + 35 * momentum_s
                     + 20 * volume_s + 10 * volat_s) \div 100
        clamped  == _clip(weighted, 0, 10 * One)
        boosted  == IF ag THEN clamped + 60000 ELSE clamped
    IN  IF cf THEN boosted - 80000 ELSE boosted

\* lines 288-306: tmv of the four component scores, agree and conflict
tmv(trend_s, momentum_s, volume_s, volat_s, ag, cf) ==
    LET weighted == (35 * trend_s + 35 * momentum_s
                     + 20 * volume_s + 10 * volat_s) \div 100
        boosted  == IF ag THEN weighted + 60000 ELSE weighted
        adjusted == IF cf THEN boosted - 80000 ELSE boosted
    IN  _clip(adjusted, 0, 10 * One)

\* lines 288-306, for the readings r
tmv_score(r) ==
    tmv(trend_score(r), momentum_score(r), volume_score(r), volat_score(r),
        agree(r), conflict(r))

\* lines 311-316
confidence(r) ==
    _clip(35000
          + (IF agree(r) THEN 15000 ELSE 0)
          + (IF r.adx_val >= 20 THEN 10000 ELSE 0)
          + (IF r.vol_ratio >= 115 THEN 10000 ELSE 0)
          + (IF abs(r.hist_d) > 0 THEN 10000 ELSE 0),
          0, One)

\* (mutant) no addition for an overbought close at the upper band
reversal_prob_no_overbought(r) ==
    _clip(10000
          + (IF r.rsi_val <= 30 /\ r.near_lower THEN 35000 ELSE 0)
          + (IF r.adx_d < 0 /\ r.adx_val >= 18 THEN 15000 ELSE 0)
          - (IF r.bb_w_d > 0 THEN 10000 ELSE 0),
          0, One)

\* lines 326-337
reversal_prob(r) ==
    _clip(10000
          + (IF r.rsi_val >= 70 /\ r.near_upper THEN 35000 ELSE 0)
          + (IF r.rsi_val <= 30 /\ r.near_lower THEN 35000 ELSE 0)
          + (IF r.adx_d < 0 /\ r.adx_val >= 18 THEN 15000 ELSE 0)
          - (IF r.bb_w_d > 0 THEN 10000 ELSE 0),
          0, One)

\* lines 342-358: the reasons, in the order they are appended
reasons(r) ==
    (IF trend_dir(r) # "Neutral" THEN <<"EMA stack">> ELSE <<>>)
    \o (IF r.adx_val >= 22 THEN <<"ADX strong">> ELSE <<>>)
    \o (IF abs(r.hist_d) > 0 /\ abs(r.hist_val) > 0
        THEN <<"MACD accel">> ELSE <<>>)
    \o (IF r.vol_ratio >= 120 THEN <<"Vol spike">> ELSE <<>>)
    \o (IF r.bb_w_d > 0 THEN <<"BB width expanding">> ELSE <<>>)
    \o (IF r.rsi_val >= 60 THEN <<"RSI bullish">>
        ELSE IF r.rsi_val <= 40 THEN <<"RSI bearish">> ELSE <<>>)
    \o (IF conflict(r) THEN <<"Trend/Momentum conflict">> ELSE <<>>)

\* (mutant) every reason is joined, none is cut
signal_reason_uncapped(r) ==
    IF reasons(r) = <<>> THEN <<"No strong edges (flat conditions)">>
    ELSE reasons(r)

\* line 360: " + ".join(reasons[:6]), or the text for no reason
signal_reason(r) ==
    IF reasons(r) = <<>> THEN <<"No strong edges (flat conditions)">>
    ELSE SubSeq(reasons(r), 1, IF Len(reasons(r)) < 6 THEN Len(reasons(r)) ELSE 6)

\* the dict returned for a frame that cannot be scored, lines 142-143 and
\* 155-156: no TMV Score, no component score
no_score(why) ==
    [raised |-> FALSE, TMVScore |-> <<>>, Confidence |-> 0,
     TrendDirection |-> "Neutral", Regime |-> "Unknown",
     ReversalProbability |-> 0, SignalReason |-> <<why>>,
     TrendScore |-> <<>>, MomentumScore |-> <<>>, VolumeScore |-> <<>>,
     VolatilityScore |-> <<>>]

\* an exception leaves calculate_scores
raises(what) == [no_score(what) EXCEPT !.raised = TRUE]

\* (mutant) calculate_scores without its test of the columns
has_required_unchecked(columns) == TRUE

\* line 141: required.issubset(df.columns)
has_required(columns) == required \subseteq columns

\* calculate_scores(df); d["date"] and d[col] of lines 147-150 raise KeyError
\* for a column that is not there
calculate_scores(frame) ==
    IF ~has_required(frame.columns) THEN no_score("Missing columns")
    ELSE IF ~(required \subseteq frame.columns) THEN raises("KeyError")
    ELSE IF frame.rows - frame.dropped < MinCandles
    THEN no_score("Not enough candles (need ~60+)")
    ELSE LET r == readings_of(frame.ind)
         IN  [raised |-> FALSE,
              TMVScore |-> << round_to_hundredths(tmv_score(r)) >>,
              Confidence |-> round_to_hundredths(confidence(r)),
              TrendDirection |-> trend_dir(r),
              Regime |-> regime(r.adx_val, r.bb_w_rank),
              ReversalProbability |-> round_to_hundredths(reversal_prob(r)),
              SignalReason |-> signal_reason(r),
              TrendScore |-> << round_to_hundredths(trend_score(r)) >>,
              MomentumScore |-> << round_to_hundredths(momentum_score(r)) >>,
              VolumeScore |-> << round_to_hundredths(volume_score(r)) >>,
              VolatilityScore |-> << round_to_hundredths(volat_score(r)) >>]

\* compute_scores_for_symbol after fetch_ohlc_data returned ohlc: None for an
\* empty frame; else the index becomes the first column, named "date" if no
\* column has that name, and the result of calculate_scores is returned
\* unless it has no TMV Score.  None is <<>>.
compute_scores_for_symbol(ohlc) ==
    IF ohlc.rows = 0 THEN <<>>
    ELSE LET columns == ohlc.columns \cup {ohlc.index}
             frame == [ohlc EXCEPT !.columns =
                          IF "date" \in columns THEN columns
                          ELSE (columns \ {ohlc.index}) \cup {"date"}]
             dict == calculate_scores(frame)
         IN  IF dict.TMVScore = <<>> THEN <<>> ELSE << dict >>

\* ------------------------------------------------------------------------
\* The frames the scoring engine is given
\* ------------------------------------------------------------------------
\* every reading undefined or unchanged: a close of 100, no band, a volume
\* ratio of 1.0 and the percentile _pct_rank gives for fewer than 10 widths
Undefined ==
    [close |-> 100, ema8 |-> <<>>, ema21 |-> <<>>, ema50 |-> <<>>,
     ema21_slope |-> <<>>, adx |-> <<>>, pdi |-> <<>>, mdi |-> <<>>,
     rsi |-> <<>>, rsi_d |-> 0, hist |-> <<>>, hist_d |-> 0,
     vol_ratio |-> 100, obv_slope |-> <<>>, mfi |-> <<>>, mfi_d |-> 0,
     bb_w_rank |-> 50, bb_w_d |-> 0, bb_up |-> <<>>, bb_low |-> <<>>,
     adx_d |-> 0]

\* (ema8, ema21, ema50) around a close of 100: stacked up, stacked down, none
EmaStacks ==
    { << <<99>>, <<98>>, <<97>> >>, << <<101>>, <<102>>, <<103>> >>,
      << <<>>, <<>>, <<>> >> }

\* (+DI, -DI)
DiValues ==
    { << <<>>, <<>> >>, << <<30>>, <<10>> >>, << <<10>>, <<30>> >>,
      << <<12>>, <<10>> >> }

AdxValues == { <<>>, <<14>>, <<18>>, <<20>>, <<22>>, <<45>> }
SlopeValues == { <<>>, <<5>> }
RsiValues == { <<>>, <<5>>, <<30>>, <<40>>, <<48>>, <<52>>, <<60>>, <<70>>, <<95>> }
HistValues == { <<>>, <<-40>>, <<40>> }
VolRatios == { 0, 100, 115, 120, 300 }
ObvSlopes == { <<>>, <<-3>>, <<3>> }
MfiValues == { <<>>, <<5>>, <<95>> }
Ranks == { 0, 45, 46, 50, 100 }
Changes(n) == { 0 - n, 0, n }

\* (upper band, lower band) around a close of 100: undefined, the close on
\* the upper band, on the lower band, inside, on both
Bands ==
    { << <<>>, <<>> >>, << <<100>>, <<90>> >>, << <<110>>, <<100>> >>,
      << <<110>>, <<90>> >>, << <<100>>, <<100>> >> }

WithTrend(ind, e, d, a, s) ==
    [ind EXCEPT !.ema8 = e[1], !.ema21 = e[2], !.ema50 = e[3],
                !.pdi = d[1], !.mdi = d[2], !.adx = a, !.ema21_slope = s]

WithMomentum(ind, r, rd, h, hd) ==
    [ind EXCEPT !.rsi = r, !.rsi_d = rd, !.hist = h, !.hist_d = hd]

WithVolume(ind, v, o, m, md) ==
    [ind EXCEPT !.vol_ratio = v, !.obv_slope = o, !.mfi = m, !.mfi_d = md]

WithBands(ind, b, rank, wd) ==
    [ind EXCEPT !.bb_up = b[1], !.bb_low = b[2], !.bb_w_rank = rank,
                !.bb_w_d = wd]

\* a strong up trend, a strong down trend, no trend
TrendSetups ==
    { WithTrend(Undefined, << <<99>>, <<98>>, <<97>> >>,
                << <<30>>, <<10>> >>, <<45>>, <<5>>),
      WithTrend(Undefined, << <<101>>, <<102>>, <<103>> >>,
                << <<10>>, <<30>> >>, <<45>>, <<5>>),
      Undefined }

\* The readings of the model: the trend readings against the regime
\* readings; the momentum readings against the bands, for each trend; the
\* volume and volatility readings; the reversal readings; and every reading
\* group at its lowest and at its highest, for each trend.
Readings ==
    { [WithTrend(Undefined, e, d, a, s) EXCEPT !.bb_w_rank = rank, !.adx_d = ad] :
        e \in EmaStacks, d \in DiValues, a \in AdxValues, s \in SlopeValues,
        rank \in Ranks, ad \in Changes(2) }
    \cup
    { WithBands(WithMomentum(t, r, rd, h, hd), b, 50, 0) :
        t \in TrendSetups, r \in RsiValues, rd \in Changes(5),
        h \in HistValues, hd \in Changes(20), b \in Bands }
    \cup
    { WithBands(WithVolume(Undefined, v, o, m, md), << <<>>, <<>> >>, rank, wd) :
        v \in VolRatios, o \in ObvSlopes, m \in MfiValues, md \in Changes(5),
        rank \in Ranks, wd \in Changes(100) }
    \cup
    { [WithBands([Undefined EXCEPT !.rsi = r], b, 50, wd)
            EXCEPT !.adx = a, !.adx_d = ad] :
        r \in RsiValues, b \in Bands, a \in AdxValues, ad \in Changes(2),
        wd \in Changes(100) }
    \cup
    { WithBands(WithVolume(WithMomentum(t, m[1], m[2], m[3], m[4]),
                           v[1], v[2], v[3], v[4]),
                << <<>>, <<>> >>, w[1], w[2]) :
        t \in TrendSetups,
        m \in { << <<5>>, -5, <<-40>>, -20 >>, << <<95>>, 5, <<40>>, 20 >> },
        v \in { << 0, <<-3>>, <<5>>, -5 >>, << 300, <<3>>, <<95>>, 5 >> },
        w \in { << 0, -100 >>, << 100, 100 >> } }

\* the frames with every column and MaxCandles usable rows
ValidFrames ==
    { [columns |-> required, index |-> "index", rows |-> MaxCandles,
       dropped |-> 0, ind |-> ind] : ind \in Readings }

\* frames of any columns, of either index name and of the lengths around
\* MinCandles, one row of which may be unusable
OddFrames ==
    { f \in [columns : SUBSET required, index : {"date", "index"},
             rows : {0, 1, MinCandles - 1, MinCandles, MaxCandles},
             dropped : {0, 1}, ind : TrendSetups] :
        f.dropped <= f.rows /\ f.index \notin f.columns }

Frames == ValidFrames \cup OddFrames

\* the frame has every required column and at least MinCandles usable rows
valid(frame) ==
    /\ required \subseteq frame.columns
    /\ frame.rows - frame.dropped >= MinCandles

\* calculate_scores(df) is called
CalculateScores ==
    /\ ~result.called
    /\ result' = Returned(calculate_scores(df))
    /\ UNCHANGED << df, scored, updater, dashboard, panel, retrier >>

\* compute_scores_for_symbol is called and fetch_ohlc_data returns df
ComputeScoresForSymbol ==
    /\ ~scored.called
    /\ scored' = Returned(compute_scores_for_symbol(df))
    /\ UNCHANGED << df, result, updater, dashboard, panel, retrier >>

ScoreInit ==
    /\ UpdaterInit([sheets |-> <<WATCHLIST_WS>>, column |-> <<>>,
                    live |-> EmptyGrid, base |-> EmptyGrid])
    /\ df \in Frames
    /\ result = NotCalled
    /\ scored = NotCalled
    /\ DashboardIdle
    /\ PanelIdle
    /\ RetryIdle

ScoreNext == CalculateScores \/ ComputeScoresForSymbol

ScoreSpec == ScoreInit /\ [][ScoreNext]_vars

\* the columns compute_scores_for_symbol cannot supply by naming the index
ohlcv == required \ {"date"}

\* C16: for a frame that misses a required column or has fewer than
\* MinCandles usable rows, calculate_scores raises nothing and returns a
\* result with no TMV Score, and compute_scores_for_symbol returns no row
\* for a frame that misses an OHLCV column or has too few usable rows.
C16_BadInputGivesNoScore ==
    /\ (result.called /\ ~valid(df)) =>
            /\ ~result.value.raised
            /\ result.value.TMVScore = <<>>
    /\ (scored.called
        /\ (~(ohlcv \subseteq df.columns) \/ df.rows - df.dropped < MinCandles))
            => scored.value = <<>>

\* a frame of MinCandles rows, one of them unusable, has been given to both
C16_Witness ==
    /\ result.called /\ scored.called
    /\ df.columns = required
    /\ df.rows = MinCandles /\ df.dropped = 1
    /\ result.value.TMVScore = <<>>
    /\ scored.value = <<>>

\* a score in hundredths that lies in [0, top]
InRange(v, top) == 0 <= v /\ v <= top

\* C17: for every valid frame and every combination of readings, undefined
\* ones included, TMV Score and the four component scores lie in [0, 10],
\* Confidence and Reversal Probability in [0, 1].
C17_ScoresInRange ==
    (result.called /\ valid(df)) =>
        LET s == result.value
        IN  /\ s.TMVScore # <<>> /\ InRange(s.TMVScore[1], 1000)
            /\ InRange(s.TrendScore[1], 1000)
            /\ InRange(s.MomentumScore[1], 1000)
            /\ InRange(s.VolumeScore[1], 1000)
            /\ InRange(s.VolatilityScore[1], 1000)
            /\ InRange(s.Confidence, 100)
            /\ InRange(s.ReversalProbability, 100)

\* a valid frame whose momentum and volume sums exceed 10 and whose
\* composite, with the agreement boost, exceeds 10
C17_Witness ==
    /\ result.called /\ valid(df)
    /\ result.value.TMVScore = <<1000>>
    /\ result.value.MomentumScore = <<1000>>
    /\ result.value.VolumeScore = <<1000>>
    /\ df.ind.rsi = <<95>> /\ df.ind.rsi_d = 5

\* C18: every valid frame whose last ADX is below 15 gets the Regime
\* "Range".
C18_LowAdxIsRange ==
    (result.called /\ valid(df) /\ df.ind.adx # <<>> /\ df.ind.adx[1] < 15) =>
        result.value.Regime = "Range"

\* C18, amended: a valid frame whose last ADX is below 15 gets the Regime
\* "Range" if the band-width percentile is at most 0.45 and "Transition" if
\* it is above.
C18_LowAdxRangeOrTransition ==
    (result.called /\ valid(df) /\ df.ind.adx # <<>> /\ df.ind.adx[1] < 15) =>
        result.value.Regime =
            IF df.ind.bb_w_rank <= 45 THEN "Range" ELSE "Transition"

\* a valid frame with an ADX of 14 and a narrow band has the Regime "Range"
C18_Witness ==
    /\ result.called /\ valid(df)
    /\ df.ind.adx = <<14>>
    /\ df.ind.bb_w_rank = 45
    /\ result.value.Regime = "Range"

\* RSI >= 70 with the last close at or above the upper band
overbought(r) == r.rsi_val >= 70 /\ r.near_upper

\* RSI <= 30 with the last close at or below the lower band
oversold(r) == r.rsi_val <= 30 /\ r.near_lower

\* the readings that agree with ind on every input but the RSI and the bands
RsiBandVariants(ind) ==
    { [ind EXCEPT !.rsi = r, !.bb_up = b[1], !.bb_low = b[2]] :
        r \in RsiValues, b \in Bands }

\* the Reversal Probability calculate_scores returns for readings ind
reversal_of(ind) == round_to_hundredths(reversal_prob(readings_of(ind)))

\* C19: of two evaluations that agree on every other input, the one with
\* RSI >= 70 and the close at or above the upper band has a strictly greater
\* Reversal Probability than the one without.
C19_OverboughtRaisesReversal ==
    (result.called /\ valid(df) /\ overbought(readings_of(df.ind))) =>
        \A other \in RsiBandVariants(df.ind) :
            ~overbought(readings_of(other)) =>
                result.value.ReversalProbability > reversal_of(other)

\* C19, amended: it is strictly greater than that of an evaluation with
\* neither that condition nor RSI <= 30 with the close at or below the lower
\* band, and equal to that of one with the latter.
C19_OverboughtRaisesReversalUnlessOversold ==
    (result.called /\ valid(df) /\ overbought(readings_of(df.ind))) =>
        \A other \in RsiBandVariants(df.ind) :
            ~overbought(readings_of(other)) =>
                IF oversold(readings_of(other))
                THEN result.value.ReversalProbability = reversal_of(other)
                ELSE result.value.ReversalProbability > reversal_of(other)

\* an overbought evaluation with a falling ADX and a widening band
C19_Witness ==
    /\ result.called /\ valid(df)
    /\ overbought(readings_of(df.ind))
    /\ df.ind.adx_d < 0 /\ df.ind.adx = <<22>>
    /\ df.ind.bb_w_d > 0
    /\ result.value.ReversalProbability = 50

\* ------------------------------------------------------------------------
\* The dashboard's freshness badge (src/app.py).  Its clock and the time
\* stamps of the table it loaded are in minutes.
\* ------------------------------------------------------------------------
\* the last minute of the dashboard's clock
MaxClock == 20

\* An AsOf cell of the loaded table: a time stamp, an empty cell (NaT for
\* pd.to_datetime) or a text pd.to_datetime raises on
AsOfCells ==
    { [kind |-> "ts", t |-> 0], [kind |-> "ts", t |-> 3],
      [kind |-> "blank", t |-> 0], [kind |-> "junk", t |-> 0] }

TableRows == [AsOf : AsOfCells, TMVScore : {Str(v) : v \in ScoreValues}]

\* the tables the dashboard can have loaded: with or without an AsOf column,
\* of up to two rows
Tables ==
    [has_asof : BOOLEAN,
     rows : {<<>>} \cup {<<r>> : r \in TableRows}
                   \cup {<<r, q>> : r \in TableRows, q \in TableRows}]

\* (mutant) the as-of time taken from the rows with a high score only
_parse_asof_of_high_scores(t) ==
    IF t.has_asof
    THEN LET cells == {t.rows[k].AsOf :
                          k \in {j \in 1..Len(t.rows) : t.rows[j].TMVScore # "350"}}
             stamps == {c.t : c \in {x \in cells : x.kind = "ts"}}
         IN  IF \E c \in cells : c.kind = "junk" THEN <<>>
             ELSE IF stamps = {} THEN <<>>
             ELSE << CHOOSE m \in stamps : \A u \in stamps : u <= m >>
    ELSE <<>>

\* _parse_asof(df): None is <<>>
_parse_asof(t) ==
    IF t.has_asof
    THEN LET cells == {t.rows[k].AsOf : k \in 1..Len(t.rows)}
             stamps == {c.t : c \in {x \in cells : x.kind = "ts"}}
         IN  IF \E c \in cells : c.kind = "junk" THEN <<>>
             ELSE IF stamps = {} THEN <<>>
             ELSE << CHOOSE m \in stamps : \A u \in stamps : u <= m >>
    ELSE <<>>

\* (mutant) the age from timedelta.seconds, which is never negative
age_min_seconds_attr(now_ist, as_of) == (now_ist - as_of) % 1440

\* (now_ist - as_of).total_seconds() / 60.0
age_min(now_ist, as_of) == now_ist - as_of

\* _compute_freshness_badge(as_of) when datetime.now(IST) is now_ist
_compute_freshness_badge(as_of, now_ist) ==
    IF as_of = <<>> THEN [label |-> "UNKNOWN", color |-> "gray", age |-> 0]
    ELSE LET age == age_min(now_ist, as_of[1])
         IN  IF age <= 5 THEN [label |-> "LIVE", color |-> "green", age |-> age]
             ELSE IF age <= 15
             THEN [label |-> "LATE", color |-> "orange", age |-> age]
             ELSE [label |-> "STALE", color |-> "red", age |-> age]

\* app.py, lines 206-207: a run of the script reads the clock and shows the
\* badge of the table
Render ==
    /\ \E t \in app_now..MaxClock :
        /\ app_now' = t
        /\ badge' = _compute_freshness_badge(_parse_asof(table), t)
    /\ UNCHANGED << table, updater, engine, panel, retrier >>

FreshInit ==
    /\ UpdaterInit([sheets |-> <<WATCHLIST_WS>>, column |-> <<>>,
                    live |-> EmptyGrid, base |-> EmptyGrid])
    /\ EngineIdle
    /\ table \in Tables
    /\ app_now = 0
    /\ badge = NoBadge
    /\ PanelIdle
    /\ RetryIdle

FreshNext == Render

FreshSpec == FreshInit /\ [][FreshNext]_vars

\* the place of a label in the order fresh, late, stale
LabelRank(l) == CASE l = "LIVE" -> 1 [] l = "LATE" -> 2 [] l = "STALE" -> 3

\* the table has no AsOf column, or no time stamp in it, or a cell that
\* cannot be parsed
NoParseableAsOf(t) ==
    \/ ~t.has_asof
    \/ \A k \in 1..Len(t.rows) : t.rows[k].AsOf.kind # "ts"
    \/ \E k \in 1..Len(t.rows) : t.rows[k].AsOf.kind = "junk"

\* C20: for a table that stays the same, each badge shown is UNKNOWN if the
\* table has no parseable time stamp, and otherwise one of LIVE, LATE, STALE
\* that is never fresher than the badge shown before it.
C20_FreshnessMonotone ==
    [][ badge' # NoBadge =>
            IF NoParseableAsOf(table') THEN badge'.label = "UNKNOWN"
            ELSE /\ badge'.label \in {"LIVE", "LATE", "STALE"}
                 /\ badge # NoBadge =>
                        LabelRank(badge'.label) >= LabelRank(badge.label) ]_vars

\* the badge of a table stamped in the dashboard's future has gone stale
C20_Witness ==
    /\ badge.label = "STALE"
    /\ _parse_asof(table) = <<3>>
    /\ Len(table.rows) = 2

\* the two tables have the same AsOf column: both have none, or they have
\* the same cells in the same rows
SameStamps(t, u) ==
    /\ t.has_asof = u.has_asof
    /\ Len(t.rows) = Len(u.rows)
    /\ \A k \in 1..Len(t.rows) : t.rows[k].AsOf = u.rows[k].AsOf

\* C21: the label of the badge shown for a table is the label of every table
\* that has the same AsOf values, whatever the scores in its rows, when it is
\* evaluated at the same time.
C21_FreshnessIgnoresScores ==
    badge # NoBadge =>
        \A other \in Tables :
            SameStamps(table, other) =>
                _compute_freshness_badge(_parse_asof(other), app_now).label
                    = badge.label

\* a badge that is late for a table of two rows with different scores, the
\* row with the low score carrying the latest time stamp
C21_Witness ==
    /\ badge.label = "LATE"
    /\ Len(table.rows) = 2
    /\ table.rows[1].TMVScore = "350" /\ table.rows[1].AsOf = [kind |-> "ts", t |-> 3]
    /\ table.rows[2].TMVScore = "710" /\ table.rows[2].AsOf = [kind |-> "ts", t |-> 0]

\* ------------------------------------------------------------------------
\* The token panel of the dashboard (src/utils/token_panel.py)
\* ------------------------------------------------------------------------
\* the access tokens Kite can return for a request token
AccessTokens == {"AT1", "AT2"}

\* The texts of the paste box: nothing; spaces; a redirect URL with a
\* request_token, bare or with spaces around it; a URL without one; a
\* request token or an access token by itself, bare or with spaces around
\* it; alphanumeric texts of the lengths around 20 and 64; a text of 32
\* characters with a dash.
PastedTexts ==
    { NoText, [NoText EXCEPT !.padded = TRUE] }
    \cup { [text |-> "https://app/?request_token=RT1", padded |-> p,
            request_token |-> "RT1", length |-> 30, alnum |-> FALSE] :
                p \in BOOLEAN }
    \cup { [text |-> "https://app/", padded |-> FALSE, request_token |-> "",
            length |-> 12, alnum |-> FALSE] }
    \cup { [text |-> t, padded |-> p, request_token |-> "", length |-> 32,
            alnum |-> TRUE] : t \in {"RT1"} \cup AccessTokens, p \in BOOLEAN }
    \cup { [text |-> "alnum" \o ToString(n), padded |-> FALSE,
            request_token |-> "", length |-> n, alnum |-> TRUE] :
                n \in {19, 20, 64, 65} }
    \cup { [text |-> "AT-1", padded |-> FALSE, request_token |-> "",
            length |-> 32, alnum |-> FALSE] }

\* extract_request_token_from_text(pasted): None is ""
extract_request_token_from_text(p) ==
    IF p.length = 0 THEN ""
    ELSE IF p.request_token # "" THEN p.request_token
    ELSE IF 20 <= p.length /\ p.length <= 64 /\ p.alnum THEN p.text
    ELSE ""

\* a call verify_access_token(t) that returned ok
verify_event(t, ok) == [op |-> "verify", token |-> t, ok |-> ok]

\* a call write_access_token(t); ok when it returned
write_event(t, ok) == [op |-> "write", token |-> t, ok |-> ok]

\* write_access_token(t), lines 44-50: _open_token_sheet or an update raises
\* after n of the three cells were updated; n = 3 when none does
write_access_token(sheet, t, n) ==
    [C1 |-> IF n >= 1 THEN t ELSE sheet.C1,
     D1 |-> IF n >= 2 THEN t ELSE sheet.D1,
     E1 |-> IF n >= 3 THEN t ELSE sheet.E1]

\* (mutant) the result of the verification is not looked at
after_verify_ignored(ok, on_true) == on_true

\* lines 140-142 and 152, 158-159: where the panel goes after
\* verify_access_token returned ok
after_verify(ok, on_true) == IF ok THEN on_true ELSE "returned"

\* render_token_panel, lines 112-137: the script runs; the paste box and the
\* button are read and the request token looked for
PanelRender ==
    /\ panel_pc = "idle"
    /\ \E p \in PastedTexts, b \in BOOLEAN :
        /\ pasted' = p
        /\ do_save' = b
        /\ panel_pc' = IF ~b \/ p.length = 0 THEN "returned"
                       ELSE IF extract_request_token_from_text(p) # ""
                       THEN "exchange"
                       ELSE "verify_candidate"
    /\ panel_ret' = IF panel_pc' = "returned" THEN Returned(<<>>) ELSE NotCalled
    /\ access_token' = ""
    /\ kite_log' = <<>>
    /\ token_sheet0' = token_sheet
    /\ UNCHANGED << token_sheet, updater, engine, dashboard, retrier >>

\* line 139: exchange_request_token(req_tok) returns an access token or
\* raises, which line 147 catches
ExchangeRequestToken ==
    /\ panel_pc = "exchange"
    /\ \E o \in {"raise"} \cup AccessTokens :
        IF o = "raise"
        THEN /\ panel_pc' = "verify_candidate"
             /\ access_token' = access_token
        ELSE /\ panel_pc' = "verify_exchanged"
             /\ access_token' = o
    /\ UNCHANGED << pasted, do_save, kite_log, token_sheet, token_sheet0,
                    panel_ret, updater, engine, dashboard, retrier >>

\* lines 140-142: verify_access_token(access_token)
VerifyExchanged ==
    /\ panel_pc = "verify_exchanged"
    /\ \E ok \in BOOLEAN :
        /\ kite_log' = Append(kite_log, verify_event(access_token, ok))
        /\ panel_pc' = after_verify(ok, "write_exchanged")
    /\ panel_ret' = IF panel_pc' = "returned" THEN Returned(<<>>) ELSE panel_ret
    /\ UNCHANGED << pasted, do_save, access_token, token_sheet, token_sheet0,
                    updater, engine, dashboard, retrier >>

\* lines 143-148: write_access_token(access_token); what it raises is caught
\* and the paste is then tried as an access token
WriteExchanged ==
    /\ panel_pc = "write_exchanged"
    /\ \E n \in 0..3 :
        /\ token_sheet' = write_access_token(token_sheet, access_token, n)
        /\ kite_log' = Append(kite_log, write_event(access_token, n = 3))
        /\ panel_pc' = IF n = 3 THEN "returned" ELSE "verify_candidate"
        /\ panel_ret' = IF n = 3 THEN Returned(<<access_token>>) ELSE panel_ret
    /\ UNCHANGED << pasted, do_save, access_token, token_sheet0,
                    updater, engine, dashboard, retrier >>

\* lines 151-152 and 158-159: verify_access_token(pasted.strip())
VerifyCandidate ==
    /\ panel_pc = "verify_candidate"
    /\ \E ok \in BOOLEAN :
        /\ kite_log' = Append(kite_log, verify_event(pasted.text, ok))
        /\ panel_pc' = after_verify(ok, "write_candidate")
    /\ panel_ret' = IF panel_pc' = "returned" THEN Returned(<<>>) ELSE panel_ret
    /\ UNCHANGED << pasted, do_save, access_token, token_sheet, token_sheet0,
                    updater, engine, dashboard, retrier >>

\* lines 153-156: write_access_token(candidate); what it raises leaves
\* render_token_panel
WriteCandidate ==
    /\ panel_pc = "write_candidate"
    /\ \E n \in 0..3 :
        /\ token_sheet' = write_access_token(token_sheet, pasted.text, n)
        /\ kite_log' = Append(kite_log, write_event(pasted.text, n = 3))
        /\ panel_pc' = IF n = 3 THEN "returned" ELSE "raised"
        /\ panel_ret' = IF n = 3 THEN Returned(<<pasted.text>>) ELSE panel_ret
    /\ UNCHANGED << pasted, do_save, access_token, token_sheet0,
                    updater, engine, dashboard, retrier >>

\* The token sheets a run of the script can find: no token; the token an
\* earlier run saved; a token over it whose write stopped after cell C1.
TokenSheets ==
    { EmptyTokenSheet,
      [C1 |-> "AT1", D1 |-> "AT1", E1 |-> "AT1"],
      [C1 |-> "AT2", D1 |-> "AT1", E1 |-> "AT1"] }

\* one run of the script, on any of the token sheets
PanelInit ==
    /\ UpdaterInit([sheets |-> <<WATCHLIST_WS>>, column |-> <<>>,
                    live |-> EmptyGrid, base |-> EmptyGrid])
    /\ EngineIdle
    /\ DashboardIdle
    /\ pasted = NoText
    /\ do_save = FALSE
    /\ panel_pc = "idle"
    /\ access_token = ""
    /\ kite_log = <<>>
    /\ token_sheet \in TokenSheets
    /\ token_sheet0 = token_sheet
    /\ panel_ret = NotCalled
    /\ RetryIdle

PanelNext ==
    \/ PanelRender
    \/ ExchangeRequestToken
    \/ VerifyExchanged
    \/ WriteExchanged
    \/ VerifyCandidate
    \/ WriteCandidate

PanelSpec == PanelInit /\ [][PanelNext]_vars

\* verify_access_token(t) returned true before the k-th call of the render
VerifiedBefore(t, k) ==
    \E j \in 1..(k - 1) : kite_log[j] = verify_event(t, TRUE)

\* C22: every write_access_token(t) call of a render comes after a
\* verify_access_token(t) call of that render that returned true for the
\* same t; a token cell of the sheet changes only to such a token; and a
\* render in which no verification succeeded calls no write and leaves the
\* token sheet as it was.
C22_WriteOnlyVerified ==
    /\ \A k \in 1..Len(kite_log) :
            kite_log[k].op = "write" => VerifiedBefore(kite_log[k].token, k)
    /\ \A c \in {"C1", "D1", "E1"} :
            token_sheet[c] # token_sheet0[c] =>
                VerifiedBefore(token_sheet[c], Len(kite_log) + 1)
    /\ (\A k \in 1..Len(kite_log) : ~(kite_log[k].op = "verify" /\ kite_log[k].ok))
            => /\ token_sheet = token_sheet0
               /\ \A k \in 1..Len(kite_log) : kite_log[k].op # "write"

\* the write of the exchanged token stopped after the first cell, and the
\* paste, another token, was then verified and saved over it
C22_Witness ==
    /\ panel_pc = "returned"
    /\ Len(kite_log) = 4
    /\ kite_log[2] = write_event(access_token, FALSE)
    /\ kite_log[4] = write_event(pasted.text, TRUE)
    /\ kite_log[2].token # kite_log[4].token
    /\ token_sheet0 = EmptyTokenSheet
    /\ token_sheet = [C1 |-> pasted.text, D1 |-> pasted.text, E1 |-> pasted.text]

\* ------------------------------------------------------------------------
\* retry_gsheets by itself (src/tmv_updater.py, lines 76-88), called with any
\* fn.  A message is the sequence of its parts; sleeps are in hundredths of
\* a second.
\* ------------------------------------------------------------------------
\* the parts of a message that retry_gsheets looks for, line 82
TransientParts == {"429", "Quota exceeded", "503", "500"}

\* What one invocation of fn does: it returns a value, raises an APIError
\* with one of the messages, or raises an error of another type.
FnOutcomes ==
    { [kind |-> "return", msg |-> <<>>, value |-> v] : v \in {"r1", "r2"} }
    \cup { [kind |-> "APIError", msg |-> m, value |-> ""] :
             m \in { <<"429">>, <<"Quota exceeded">>, <<"503">>, <<"500">>,
                     <<"400">>, <<"403", "PERMISSION_DENIED">>, <<>> } }
    \cup { [kind |-> "ConnectionError", msg |-> <<"503">>, value |-> ""] }

\* (mutant) every APIError is retried
is_transient_any(e) == e.kind = "APIError"

\* lines 80-82: `except APIError as e` and the test of str(e)
is_transient(e) ==
    /\ e.kind = "APIError"
    /\ \E part \in TransientParts : InSeq(part, e.msg)

\* (mutant) a wait that grows by base_sleep each time
sleep_s_linear(b, idx) == b * (idx + 1)

\* line 83: base_sleep * (2 ** i)
sleep_s(b, idx) == b * (2 ^ idx)

\* retry_gsheets(fn, tries=..., base_sleep=...) is called: the default
\* arguments of line 76 or others; range(tries) is empty for tries = 0
RetryGsheets ==
    /\ retry_pc = "idle"
    /\ tries' \in {0, 1, 3, Tries}
    /\ base_sleep' \in {125, 20}
    /\ retry_i' = 0
    /\ retry_pc' = IF tries' = 0 THEN "exhausted" ELSE "loop"
    /\ UNCHANGED << fn_calls, sleeps, retry_ret, updater, engine, dashboard,
                    panel >>

\* lines 77-88: one iteration of the loop, and the raise of line 88 when it
\* was the last
InvokeFn ==
    /\ retry_pc = "loop"
    /\ retry_i < tries
    /\ \E o \in FnOutcomes :
        /\ fn_calls' = Append(fn_calls, o)
        /\ IF o.kind = "return"
           THEN /\ retry_pc' = "returned"
                /\ retry_ret' = Returned(o.value)
                /\ UNCHANGED << retry_i, sleeps >>
           ELSE IF is_transient(o)
           THEN /\ sleeps' = Append(sleeps, sleep_s(base_sleep, retry_i))
                /\ retry_i' = retry_i + 1
                /\ retry_pc' = IF retry_i' < tries THEN "loop" ELSE "exhausted"
                /\ UNCHANGED retry_ret
           ELSE /\ retry_pc' = "raised"
                /\ UNCHANGED << retry_i, sleeps, retry_ret >>
    /\ UNCHANGED << tries, base_sleep, updater, engine, dashboard, panel >>

RetryInit ==
    /\ UpdaterInit([sheets |-> <<WATCHLIST_WS>>, column |-> <<>>,
                    live |-> EmptyGrid, base |-> EmptyGrid])
    /\ EngineIdle
    /\ DashboardIdle
    /\ PanelIdle
    /\ RetryIdle

RetryNext == RetryGsheets \/ InvokeFn

RetrySpec == RetryInit /\ [][RetryNext]_vars

\* an APIError whose message holds one of the parts 429, Quota exceeded,
\* 500, 503
TransientError(e) ==
    /\ e.kind = "APIError"
    /\ \/ InSeq("429", e.msg) \/ InSeq("Quota exceeded", e.msg)
       \/ InSeq("500", e.msg) \/ InSeq("503", e.msg)

\* C23: retry_gsheets invokes fn at most `tries` times; every invocation but
\* the last failed with a transient error; the wait after the i-th failure
\* is base_sleep * 2^(i-1); when fn succeeds after k < tries transient
\* failures it was invoked k + 1 times and its result is returned; when
\* `tries` invocations failed transiently the retries-exhausted error is
\* raised; and fn is not invoked after retry_gsheets ended.
C23_BoundedBackoff ==
    LET n == Len(fn_calls)
        k == Len(sleeps)
    IN  /\ n <= tries
        /\ \A j \in 1..n : (j < n \/ retry_pc = "loop") => TransientError(fn_calls[j])
        /\ k = Cardinality({j \in 1..n : TransientError(fn_calls[j])})
        /\ \A j \in 1..k : sleeps[j] = base_sleep * 2^(j - 1)
        /\ retry_pc = "returned" =>
                /\ k < tries /\ n = k + 1
                /\ fn_calls[n].kind = "return"
                /\ retry_ret = Returned(fn_calls[n].value)
        /\ retry_pc = "exhausted" =>
                /\ n = tries /\ k = tries
                /\ ~retry_ret.called
        /\ (retry_pc \in {"returned", "exhausted", "raised"}) => ~ENABLED InvokeFn

\* fn succeeded at the last of the default six tries, after five transient
\* failures of four kinds
C23_Witness ==
    /\ retry_pc = "returned"
    /\ tries = Tries
    /\ Len(fn_calls) = Tries
    /\ sleeps = << 125, 250, 500, 1000, 2000 >>
    /\ {fn_calls[j].msg : j \in 1..4} =
            {<<"429">>, <<"Quota exceeded">>, <<"503">>, <<"500">>}
    /\ retry_ret = Returned("r2")

\* C29: an error of fn that is not transient - an APIError whose message
\* holds none of 429, Quota exceeded, 500, 503, or an error of another type -
\* ends retry_gsheets at once: it is the last invocation of fn, no sleep
\* follows it, and it leaves retry_gsheets, which returns nothing.
C29_NonTransientNotRetried ==
    \A j \in 1..Len(fn_calls) :
        (fn_calls[j].kind # "return" /\ ~TransientError(fn_calls[j])) =>
            /\ j = Len(fn_calls)
            /\ Len(sleeps) = j - 1
            /\ retry_pc = "raised"
            /\ ~retry_ret.called
            /\ ~ENABLED InvokeFn

\* after two transient failures an error of another type, whose message
\* holds 503, left retry_gsheets
C29_Witness ==
    /\ retry_pc = "raised"
    /\ Len(fn_calls) = 3
    /\ Len(sleeps) = 2
    /\ fn_calls[3].kind = "ConnectionError"

\* ------------------------------------------------------------------------
\* The composite score, the regime and the reasons (ScoreSpec)
\* ------------------------------------------------------------------------
\* x limited to [0, 10], in the unit of the scores
Clamp10(x) == IF x < 0 THEN 0 ELSE IF x > 10 * One THEN 10 * One ELSE x

\* clamp(0.35 Trend + 0.35 Momentum + 0.20 Volume + 0.10 Volatility, 0, 10),
\* then +0.6 on agreement, -0.8 on conflict, then the clamp again
ClampAdjustReclamp(t, m, v, vl, ag, cf) ==
    LET composite == Clamp10((35 * t + 35 * m + 20 * v + 10 * vl) \div 100)
    IN  Clamp10(composite + (IF ag THEN 60000 ELSE 0)
                          - (IF cf THEN 80000 ELSE 0))

LastAdx(frame) == IF frame.ind.adx = <<>> THEN 0 ELSE frame.ind.adx[1]

\* C25: the Regime of a valid frame is "Trend" exactly if ADX >= 22 and the
\* band-width percentile >= 0.45, "Range" exactly if ADX <= 18 and the
\* percentile <= 0.45, and "Transition" exactly in every other case; it is
\* never another label.
C25_RegimeRule ==
    (result.called /\ valid(df)) =>
        LET a == LastAdx(df)
            p == df.ind.bb_w_rank
            trending == a >= 22 /\ p >= 45
            ranging  == a <= 18 /\ p <= 45
            label == result.value.Regime
        IN  /\ label \in {"Trend", "Range", "Transition"}
            /\ ~(trending /\ ranging)
            /\ (label = "Trend") <=> trending
            /\ (label = "Range") <=> ranging
            /\ (label = "Transition") <=> (~trending /\ ~ranging)

\* a valid frame with an ADX of exactly 22 at the percentile 0.45 is a
\* "Trend"
C25_Witness ==
    /\ result.called /\ valid(df)
    /\ df.ind.adx = <<22>>
    /\ df.ind.bb_w_rank = 45
    /\ result.value.Regime = "Trend"

\* the place of a reason in the fixed order: trend stack, ADX strength, MACD
\* acceleration, volume spike, band-width expansion, RSI bullish or bearish,
\* trend/momentum conflict
ReasonPlace(name) ==
    CASE name = "EMA stack" -> 1
      [] name = "ADX strong" -> 2
      [] name = "MACD accel" -> 3
      [] name = "Vol spike" -> 4
      [] name = "BB width expanding" -> 5
      [] name \in {"RSI bullish", "RSI bearish"} -> 6
      [] name = "Trend/Momentum conflict" -> 7
      [] OTHER -> 0

\* the condition a reason stands for holds for the readings r
Contributes(name, r) ==
    CASE name = "EMA stack" -> trend_dir(r) # "Neutral"
      [] name = "ADX strong" -> r.adx_val >= 22
      [] name = "MACD accel" -> r.hist_d # 0 /\ r.hist_val # 0
      [] name = "Vol spike" -> r.vol_ratio >= 120
      [] name = "BB width expanding" -> r.bb_w_d > 0
      [] name = "RSI bullish" -> r.rsi_val >= 60
      [] name = "RSI bearish" -> r.rsi_val <= 40
      [] name = "Trend/Momentum conflict" -> conflict(r)
      [] OTHER -> FALSE

ReasonNames ==
    {"EMA stack", "ADX strong", "MACD accel", "Vol spike",
     "BB width expanding", "RSI bullish", "RSI bearish",
     "Trend/Momentum conflict"}

\* the readings that differ from ind in the change of the band width only:
\* with them the reason "BB width expanding" comes and goes
WidthChangeVariants(ind) == { [ind EXCEPT !.bb_w_d = wd] : wd \in Changes(100) }

\* C26: the SignalReason of a valid frame holds at most 6 reasons, each of
\* them a condition that holds, in the fixed order, and they are the first
\* ones of the conditions that hold; with no such condition it is the text
\* for flat conditions.  It is descriptive only: a conflict that is cut from
\* the list as the seventh reason is still in the TMV Score, and a frame
\* that differs only in the change of the band width, and so in its list,
\* has the same Trend Direction, Regime, Confidence, TrendScore,
\* MomentumScore and VolumeScore.
C26_ReasonsCappedOrderedDescriptive ==
    (result.called /\ valid(df)) =>
        LET r  == readings_of(df.ind)
            sr == result.value.SignalReason
            holding == {n \in ReasonNames : Contributes(n, r)}
            independent(dict) ==
                << dict.TrendDirection, dict.Regime, dict.Confidence,
                   dict.TrendScore, dict.MomentumScore, dict.VolumeScore >>
        IN  /\ Len(sr) <= 6
            /\ IF holding = {}
               THEN sr = <<"No strong edges (flat conditions)">>
               ELSE /\ \A k \in 1..Len(sr) : sr[k] \in holding
                    /\ \A j, k \in 1..Len(sr) :
                          j < k => ReasonPlace(sr[j]) < ReasonPlace(sr[k])
                    /\ \A n \in holding :
                          InSeq(n, sr) \/ (Len(sr) = 6 /\ ReasonPlace(n) = 7)
            /\ conflict(r) =>
                  result.value.TMVScore =
                      << round_to_hundredths(
                            ClampAdjustReclamp(trend_score(r), momentum_score(r),
                                volume_score(r), volat_score(r), FALSE, TRUE)) >>
            /\ \A other \in WidthChangeVariants(df.ind) :
                  LET dict == calculate_scores([df EXCEPT !.ind = other])
                  IN  independent(dict) = independent(result.value)

\* a valid frame for which all seven conditions hold: the list has six
\* reasons and the conflict is not among them
C26_Witness ==
    /\ result.called /\ valid(df)
    /\ Cardinality({n \in ReasonNames : Contributes(n, readings_of(df.ind))}) = 7
    /\ Len(result.value.SignalReason) = 6
    /\ ~InSeq("Trend/Momentum conflict", result.value.SignalReason)

\* ------------------------------------------------------------------------
\* The rows of one run (Spec)
\* ------------------------------------------------------------------------
\* every row of the table the run is assembling carries the same AsOf
OneAsOf == \A j, k \in 1..Len(rows) : rows[j].AsOf = rows[k].AsOf

\* no row of the table carries an AsOf earlier than the CapturedAt of a
\* baseline record the run captured
AsOfNotBeforeCapture ==
    \A k \in 1..Len(rows) : \A j \in 1..Len(baseline_rows) :
        TimeLeq(baseline_rows[j].CapturedAt, rows[k].AsOf)

\* the second the instant t lies in
WholeSecond(t) == [day |-> t.day, ms |-> t.ms - (t.ms % 1000)]

\* C27: every row of the table assembled by one run carries the same AsOf,
\* which is not earlier than the time at which the run passed the
\* market-hours gate nor than the CapturedAt of a baseline captured in the
\* run.
C27_AsOfNotBeforeGate ==
    /\ OneAsOf
    /\ \A k \in 1..Len(rows) : TimeLeq(dt, rows[k].AsOf)
    /\ AsOfNotBeforeCapture

\* C27, amended: every row of the table assembled by one run carries the
\* same AsOf, a time in whole seconds, which is not earlier than the second
\* in which the run passed the market-hours gate (it can be earlier than the
\* instant of the gate by less than a second) nor than the CapturedAt of a
\* baseline captured in the run.
C27_AsOfNotBeforeGateSecond ==
    /\ OneAsOf
    /\ \A k \in 1..Len(rows) :
        /\ rows[k].AsOf = WholeSecond(rows[k].AsOf)
        /\ TimeLeq(WholeSecond(dt), rows[k].AsOf)
    /\ AsOfNotBeforeCapture

\* a run that captured a baseline at the open and assembled two rows later,
\* in the middle of a second
C27_Witness ==
    /\ Len(rows) = 2
    /\ Len(baseline_rows) = 2
    /\ live_t.ms > dt.ms
    /\ rows[2].AsOf # live_t
    /\ TimeLeq(baseline_rows[1].CapturedAt, rows[2].AsOf)

\* the cells of the watchlist column below the header that hold the symbol
\* sym, once normalised
CellsOf(sym) ==
    { k \in 2..Len(watchcol) : normalize_symbol(watchcol[k]) = sym }

\* the first of them
FirstCell(sym) == CHOOSE k \in CellsOf(sym) : \A j \in CellsOf(sym) : k <= j

\* the rows of a table are in watchlist order: each row is for a symbol of
\* the watchlist, and a row that comes before another is for a symbol whose
\* first cell in the column comes before the other's.  No two rows are then
\* for the same symbol.
InWatchlistOrder(trows) ==
    /\ \A k \in 1..Len(trows) :
        trows[k].Symbol # <<>> /\ CellsOf(trows[k].Symbol) # {}
    /\ \A j, k \in 1..Len(trows) :
        j < k => FirstCell(trows[j].Symbol) < FirstCell(trows[k].Symbol)

\* C28: no two rows of the published table have the same Symbol, whatever
\* the runs did; and the table a run publishes has one row for each symbol
\* of the watchlist that the run did not leave out, in the order of the
\* first cell of each symbol in the watchlist column, the header and blank
\* cells skipped.
C28_KeyedBySymbolInWatchlistOrder ==
    /\ \A j, k \in 1..Len(live.rows) :
            live.rows[j].Symbol = live.rows[k].Symbol => j = k
    /\ InWatchlistOrder(rows)
    /\ InPublish => InWatchlistOrder(values.rows)
    /\ pc = "published" =>
            /\ InWatchlistOrder(live.rows)
            /\ Len(live.rows) = Len(rows)
            /\ fetches >= Cardinality({ normalize_symbol(watchcol[k]) :
                                            k \in 2..Len(watchcol) } \ {<<>>})

\* a published table with the one row of the second symbol of a watchlist
\* that has padding, a blank, a dash and a repetition, the first symbol
\* having been left out
C28_Witness ==
    /\ pc = "published"
    /\ watchcol = TwoSymbols
    /\ Len(live.rows) = 1
    /\ live.rows[1].Symbol = <<"B", "_", "A">>
    /\ FirstCell(live.rows[1].Symbol) = 4

\* ------------------------------------------------------------------------
\* Termination of a run of main
\* ------------------------------------------------------------------------
\* where a run of main is: its statement, the attempt of the store call it
\* is retrying and the index of its loop
position == << pc, attempt, i >>

\* the statements of a run in progress
Running ==
    {"open", "wl_ws", "wl_col", "bl_ws", "bl_read", "cap_start", "capture",
     "wb_ws", "wb_clear", "wb_update", "bl_ws2", "bl_read2", "live_start",
     "live", "pub_ws", "pub_clear", "pub_update"}

\* The process that runs main goes on: a run in progress executes its next
\* statement, and every call it makes returns or raises.  Every step of Next
\* taken by a run in progress is such a step (each changes pc, attempt or
\* i), and one is possible wherever a run is in progress: each action of a
\* statement of Running has no guard but pc, has_next in the two loops and
\* attempt < Tries in retry_gsheets.
Continue ==
    /\ pc \in Running
    /\ pc' \in Running \cup Final
    /\ attempt' \in 0..Tries
    /\ i' \in 0..(Len(symbols) + 1)

\* the runs of main, each of which goes on until it ends
LiveSpec == Init /\ [][Next]_vars /\ WF_position(Continue)

\* the statements of main in the order a run reaches them, the last first
StageOf(p) ==
    CASE p = "open" -> 15
      [] p = "wl_ws" -> 14
      [] p = "wl_col" -> 13
      [] p = "bl_ws" -> 12
      [] p = "bl_read" -> 11
      [] p = "cap_start" -> 10
      [] p = "capture" -> 9
      [] p = "wb_ws" -> 8
      [] p \in {"wb_clear", "wb_update"} -> 7
      [] p = "bl_ws2" -> 6
      [] p = "bl_read2" -> 5
      [] p = "live_start" -> 4
      [] p = "live" -> 3
      [] p = "pub_ws" -> 2
      [] p \in {"pub_clear", "pub_update"} -> 1
      [] OTHER -> 0

\* the most steps a run can still make at the statement it is at: the
\* symbols left in a loop, the store calls left to retry_gsheets (two for
\* each try of _write, one for each try of another call)
StepsLeftHere ==
    CASE pc \in {"capture", "live"} -> Len(symbols) + 1 - i
      [] pc \in {"wb_clear", "pub_clear"} -> 2 * (Tries - attempt)
      [] pc \in {"wb_update", "pub_update"} -> 2 * (Tries - attempt) - 1
      [] pc \in {"open", "wl_col", "bl_read", "bl_read2"} -> Tries - attempt
      [] OTHER -> 1

\* the most steps a run can make at one statement
StepsPerStage == 2 * Tries + Len(watchcol) + 1

\* a bound on the steps, and so on the store calls, a run can still make
StepsLeft ==
    IF pc \in Final THEN 0
    ELSE StageOf(pc) * StepsPerStage + StepsLeftHere

\* C30: every run of main ends - skipped, aborted, failed with an error,
\* abandoned or published - after a bounded number of steps: a run in
\* progress is in no more than its `tries`-th attempt of a store call, every
\* step of it lowers the bound StepsLeft on the steps it can still make, and
\* it reaches a final state.
C30_RunTerminates ==
    /\ [](pc \in Running \cup Final)
    /\ [](pc \in Running => (attempt < Tries /\ StepsLeftHere >= 1))
    /\ [][(pc \in Running) => StepsLeft' < StepsLeft]_vars
    /\ (pc \in Running) ~> (pc \in Final)

\* a run ended with its retries used up in write_livescores, in the sixth
\* attempt of the write
C30_Witness ==
    /\ pc = "exhausted"
    /\ InPublish
    /\ attempt = Tries
    /\ fetches >= 2

====
